---- MODULE Spec2Model ----
(***************************************************************************)
(* Model of the interactive selection TUI of git-forge (src/src/tui.rs):   *)
(* the event loop of select_item_with, the App state machine, the          *)
(* ItemFetcher with its worker threads and channels, ListState,            *)
(* PaginationState and the SearchState line editor.                        *)
(*                                                                         *)
(* Strings are sequences of code points; a code point is named by a        *)
(* one-element TLA+ string ("a", " ") or by its U+ name.  Byte offsets are *)
(* computed from the UTF-8 length of each code point, as the code works    *)
(* with byte offsets into a String.  Option<usize> is <<>> (None) or <<i>> *)
(* (Some(i)).                                                              *)
(***************************************************************************)
EXTENDS Integers, Sequences, FiniteSets, TLC

VARIABLES
    mode,            \* App.mode: [kind, focus]
    status,          \* ItemFetcher.status: Idle, or Fetching(rx) with rx a channel id
    options,         \* ItemFetcher.options
    threads,         \* the worker threads spawned so far, by channel id
    chan,            \* chan[id]: the messages sent on channel id and not yet received
    items,           \* ListState.items
    selected,        \* ListState.state.selected (ratatui widgets::ListState)
    pagination,      \* PaginationState: [current_page, per_page, has_next_page]
    search,          \* SearchState: [cursor_pos, query, history, history_index]
    pc,              \* position of the event loop of select_item_with
    result,          \* what select_item_with returned, once it has
    merged,          \* log: the workers whose results App::update merged, in order
    config,          \* the configuration file: Some(Config) it deserialises to, with
                     \* Config [global, host, remote] maps of settings; None if it
                     \* does not load
    url,             \* the URL of the git remote, as git::get_remote_url returns it
    remote,          \* what git::get_remote_data returned, once it has run
    cli              \* the `config` commands that are running, see Cli_default

\* the variables of the command line outside the TUI
cliVars == <<config, url, remote, cli>>

vars == <<mode, status, options, threads, chan, items, selected, pagination,
          search, pc, result, merged, cliVars>>

None == <<>>
Some(i) == <<i>>
IsSome(o) == o /= <<>>
Unwrap(o) == o[1]

Max(a, b) == IF a > b THEN a ELSE b
Min(a, b) == IF a < b THEN a ELSE b
saturating_sub(a, b) == IF a > b THEN a - b ELSE 0

(***************************************************************************)
(* Characters and strings                                                  *)
(***************************************************************************)
\* char::is_whitespace (Unicode White_Space)
is_whitespace(c) == c \in {" ", "\t", "\n", "U+00A0", "U+3000"}

\* char::len_utf8
len_utf8(c) ==
    CASE c \in {"U+00A0", "U+0301"} -> 2
      [] c \in {"U+3000"} -> 3
      [] c \in {"U+1F1E9", "U+1F1EA"} -> 4
      [] OTHER -> 1

\* Grapheme_Cluster_Break = Extend (combining marks)
is_extend(c) == c \in {"U+0301"}

\* Grapheme_Cluster_Break = Regional_Indicator
is_regional_indicator(c) == c \in {"U+1F1E9", "U+1F1EA"}

RECURSIVE byte_len(_)
\* str::len: the length in bytes
byte_len(q) == IF q = <<>> THEN 0 ELSE len_utf8(Head(q)) + byte_len(Tail(q))

\* the byte offset at which the code point after the first k code points starts
byte_of_char(q, k) == byte_len(SubSeq(q, 1, k))

\* str::is_char_boundary
is_char_boundary(q, b) == \E k \in 0..Len(q) : byte_of_char(q, k) = b

\* the number of code points before the char boundary at byte offset b
char_of_byte(q, b) == CHOOSE k \in 0..Len(q) : byte_of_char(q, k) = b

\* &q[..b]
slice_to(q, b) == SubSeq(q, 1, char_of_byte(q, b))

\* &q[b..]
slice_from(q, b) == SubSeq(q, char_of_byte(q, b) + 1, Len(q))

\* String::replace_range(bs..be, "")
replace_range(q, bs, be) == slice_to(q, bs) \o slice_from(q, be)

\* String::insert(b, c)
string_insert(q, b, c) == slice_to(q, b) \o <<c>> \o slice_from(q, b)

RECURSIVE trim_end(_)
\* str::trim_end
trim_end(q) ==
    IF q /= <<>> /\ is_whitespace(q[Len(q)]) THEN trim_end(SubSeq(q, 1, Len(q) - 1)) ELSE q

RECURSIVE trim_start(_)
\* str::trim_start, str::trim_start_matches(is_whitespace)
trim_start(q) == IF q /= <<>> /\ is_whitespace(Head(q)) THEN trim_start(Tail(q)) ELSE q

\* str::trim
trim(q) == trim_end(trim_start(q))

RECURSIVE trim_start_non_whitespace(_)
\* str::trim_start_matches(|c| !c.is_whitespace())
trim_start_non_whitespace(q) ==
    IF q /= <<>> /\ ~is_whitespace(Head(q)) THEN trim_start_non_whitespace(Tail(q)) ELSE q

\* str::rfind(is_whitespace): Some(byte offset of the last whitespace char), or None
rfind_whitespace(q) ==
    LET ws == {i \in 1..Len(q) : is_whitespace(q[i])}
    IN  IF ws = {} THEN None
        ELSE Some(byte_of_char(q, (CHOOSE i \in ws : \A j \in ws : j <= i) - 1))

\* str::find(is_whitespace): Some(byte offset of the first whitespace char), or None
find_whitespace(q) ==
    LET ws == {i \in 1..Len(q) : is_whitespace(q[i])}
    IN  IF ws = {} THEN None
        ELSE Some(byte_of_char(q, (CHOOSE i \in ws : \A j \in ws : i <= j) - 1))

(***************************************************************************)
(* Extended grapheme clusters (unicode_segmentation, UAX #29), for the     *)
(* classes of code points above: no break before Extend (GB9), regional    *)
(* indicators pair up (GB12, GB13), a break everywhere else (GB999).       *)
(***************************************************************************)
RECURSIVE ri_run(_, _)
\* the number of consecutive regional indicators that end with q[i]
ri_run(q, i) ==
    IF i = 0 \/ ~is_regional_indicator(q[i]) THEN 0 ELSE 1 + ri_run(q, i - 1)

\* is there a cluster boundary between q[i] and q[i+1]
grapheme_break(q, i) ==
    /\ ~is_extend(q[i + 1])
    /\ ~(/\ is_regional_indicator(q[i])
         /\ is_regional_indicator(q[i + 1])
         /\ ri_run(q, i) % 2 = 1)

\* the code-point offsets at which the clusters of q start
grapheme_starts(q) == {k \in 0..(Len(q) - 1) : k = 0 \/ grapheme_break(q, k)}

\* q.graphemes(true).count()
graphemes_count(q) == Cardinality(grapheme_starts(q))

(***************************************************************************)
(* SearchState                                                             *)
(***************************************************************************)
MAX_HISTORY_SIZE == 100

SearchState_default ==
    [cursor_pos |-> 0, query |-> <<>>, history |-> <<>>, history_index |-> None]

exit_history_browsing(s) == [s EXCEPT !.history_index = None]

\* mutant: clear leaves the cursor where it was
clear_keep_cursor(s) == [s EXCEPT !.history_index = None, !.query = <<>>]
clear(s) == [exit_history_browsing(s) EXCEPT !.query = <<>>, !.cursor_pos = 0]

grapheme_count(s) == graphemes_count(s.query)

grapheme_index_to_byte_index(s, grapheme_idx) ==
    LET st == grapheme_starts(s.query)
    IN  IF grapheme_idx < Cardinality(st)
        THEN byte_of_char(s.query,
                 CHOOSE k \in st : Cardinality({j \in st : j < k}) = grapheme_idx)
        ELSE byte_len(s.query)

\* mutant: has_query is true of the empty query too
has_query_always(s) == TRUE
has_query(s) == s.query /= <<>>

delete_char_before_cursor(s) ==
    IF s.cursor_pos > 0
    THEN LET byte_start == grapheme_index_to_byte_index(s, s.cursor_pos - 1)
             byte_end == grapheme_index_to_byte_index(s, s.cursor_pos)
         IN  [s EXCEPT !.query = replace_range(s.query, byte_start, byte_end),
                       !.cursor_pos = s.cursor_pos - 1]
    ELSE s

delete_char_after_cursor(s) ==
    IF s.cursor_pos < grapheme_count(s)
    THEN LET byte_start == grapheme_index_to_byte_index(s, s.cursor_pos)
             byte_end == grapheme_index_to_byte_index(s, s.cursor_pos + 1)
         IN  [s EXCEPT !.query = replace_range(s.query, byte_start, byte_end)]
    ELSE s

\* replace_range(pos + 1 .. byte_cursor) panics when pos + 1 is no char boundary
delete_word_before_cursor_panics(s) ==
    /\ s.cursor_pos /= 0
    /\ LET byte_cursor == grapheme_index_to_byte_index(s, s.cursor_pos)
           trimmed == trim_end(slice_to(s.query, byte_cursor))
           pos == rfind_whitespace(trimmed)
       IN  IsSome(pos) /\ ~is_char_boundary(s.query, Unwrap(pos) + 1)

delete_word_before_cursor(s) ==
    IF s.cursor_pos = 0 THEN s
    ELSE LET byte_cursor == grapheme_index_to_byte_index(s, s.cursor_pos)
             before_cursor == slice_to(s.query, byte_cursor)
             trimmed == trim_end(before_cursor)
             pos == rfind_whitespace(trimmed)
         IN  IF IsSome(pos)
             THEN LET byte_start == Unwrap(pos) + 1
                      q2 == replace_range(s.query, byte_start, byte_cursor)
                  IN  [s EXCEPT !.query = q2,
                                !.cursor_pos = graphemes_count(slice_to(q2, byte_start))]
             ELSE [s EXCEPT !.query = replace_range(s.query, 0, byte_cursor),
                            !.cursor_pos = 0]

delete_word_after_cursor(s) ==
    IF s.cursor_pos >= grapheme_count(s) THEN s
    ELSE LET byte_cursor == grapheme_index_to_byte_index(s, s.cursor_pos)
             after_cursor == slice_from(s.query, byte_cursor)
             trimmed == trim_start(after_cursor)
             trimmed_offset == byte_len(after_cursor) - byte_len(trimmed)
             pos == find_whitespace(trimmed)
         IN  IF IsSome(pos)
             THEN LET byte_end == byte_cursor + trimmed_offset + Unwrap(pos)
                  IN  [s EXCEPT !.query = replace_range(s.query, byte_cursor, byte_end)]
             ELSE [s EXCEPT !.query = slice_to(s.query, byte_cursor)]

insert_char_at_cursor(s, char) ==
    LET byte_pos == grapheme_index_to_byte_index(s, s.cursor_pos)
    IN  [s EXCEPT !.query = string_insert(s.query, byte_pos, char),
                  !.cursor_pos = s.cursor_pos + 1]

move_cursor_left(s) ==
    IF s.cursor_pos > 0 THEN [s EXCEPT !.cursor_pos = s.cursor_pos - 1] ELSE s

move_cursor_right(s) ==
    IF s.cursor_pos < grapheme_count(s) THEN [s EXCEPT !.cursor_pos = s.cursor_pos + 1] ELSE s

move_cursor_to_start(s) == [s EXCEPT !.cursor_pos = 0]

move_cursor_to_end(s) == [s EXCEPT !.cursor_pos = grapheme_count(s)]

\* &self.query[..pos + 1] panics when pos + 1 is no char boundary
move_cursor_left_word_panics(s) ==
    /\ s.cursor_pos /= 0
    /\ LET byte_cursor == grapheme_index_to_byte_index(s, s.cursor_pos)
           trimmed == trim_end(slice_to(s.query, byte_cursor))
           pos == rfind_whitespace(trimmed)
       IN  trimmed /= <<>> /\ IsSome(pos) /\ ~is_char_boundary(s.query, Unwrap(pos) + 1)

move_cursor_left_word(s) ==
    IF s.cursor_pos = 0 THEN s
    ELSE LET byte_cursor == grapheme_index_to_byte_index(s, s.cursor_pos)
             before_cursor == slice_to(s.query, byte_cursor)
             trimmed == trim_end(before_cursor)
             pos == rfind_whitespace(trimmed)
         IN  IF trimmed = <<>> THEN [s EXCEPT !.cursor_pos = 0]
             ELSE IF IsSome(pos)
             THEN [s EXCEPT !.cursor_pos =
                      graphemes_count(slice_to(s.query, Unwrap(pos) + 1))]
             ELSE [s EXCEPT !.cursor_pos = 0]

move_cursor_right_word(s) ==
    IF s.cursor_pos >= grapheme_count(s) THEN s
    ELSE LET byte_cursor == grapheme_index_to_byte_index(s, s.cursor_pos)
             after_cursor == slice_from(s.query, byte_cursor)
             trimmed1 == trim_start_non_whitespace(after_cursor)
         IN  IF trimmed1 = <<>> THEN [s EXCEPT !.cursor_pos = grapheme_count(s)]
             ELSE LET trimmed == trim_start(trimmed1)
                      bytes_skipped == byte_len(after_cursor) - byte_len(trimmed)
                      byte_pos == byte_cursor + bytes_skipped
                  IN  [s EXCEPT !.cursor_pos = graphemes_count(slice_to(s.query, byte_pos))]

\* mutant: browsing starts at history.len() instead of history.len() - 1
navigate_history_up_from_len(s) ==
    IF s.history = <<>> THEN s
    ELSE IF s.history_index = None
    THEN [s EXCEPT !.history_index = Some(Len(s.history))]
    ELSE IF Unwrap(s.history_index) > 0
    THEN LET index == Unwrap(s.history_index) - 1
         IN  [s EXCEPT !.history_index = Some(index),
                       !.query = s.history[index + 1],
                       !.cursor_pos = graphemes_count(s.history[index + 1])]
    ELSE s

\* history[i] of the code is history[i + 1] here
navigate_history_up(s) ==
    IF s.history = <<>> THEN s
    ELSE IF s.history_index = None
    THEN LET index == Len(s.history) - 1
         IN  [s EXCEPT !.history_index = Some(index),
                       !.query = s.history[index + 1],
                       !.cursor_pos = graphemes_count(s.history[index + 1])]
    ELSE IF Unwrap(s.history_index) > 0
    THEN LET index == Unwrap(s.history_index) - 1
         IN  [s EXCEPT !.history_index = Some(index),
                       !.query = s.history[index + 1],
                       !.cursor_pos = graphemes_count(s.history[index + 1])]
    ELSE s

\* mutant: Down at the newest entry leaves browsing but keeps the query
navigate_history_down_keep_query(s) ==
    IF s.history_index = None THEN s
    ELSE IF Unwrap(s.history_index) < Len(s.history) - 1
    THEN LET index == Unwrap(s.history_index)
         IN  [s EXCEPT !.history_index = Some(index + 1),
                       !.query = s.history[index + 2],
                       !.cursor_pos = graphemes_count(s.history[index + 2])]
    ELSE [s EXCEPT !.history_index = None]

navigate_history_down(s) ==
    IF s.history_index = None THEN s
    ELSE IF Unwrap(s.history_index) < Len(s.history) - 1
    THEN LET index == Unwrap(s.history_index)
         IN  [s EXCEPT !.history_index = Some(index + 1),
                       !.query = s.history[index + 2],
                       !.cursor_pos = graphemes_count(s.history[index + 2])]
    ELSE [s EXCEPT !.history_index = None, !.query = <<>>, !.cursor_pos = 0]

\* Vec::remove(pos), pos counted from 0
vec_remove(v, pos) == SubSeq(v, 1, pos) \o SubSeq(v, pos + 2, Len(v))

\* mutant: a query already in the history is appended again
save_to_history_no_dedup(s) ==
    IF s.query = <<>> THEN s
    ELSE LET h2 == Append(s.history, s.query)
             h3 == IF Len(h2) > MAX_HISTORY_SIZE THEN vec_remove(h2, 0) ELSE h2
         IN  [s EXCEPT !.history = h3]

save_to_history(s) ==
    IF s.query = <<>> THEN s
    ELSE LET found == {i \in 1..Len(s.history) : s.history[i] = s.query}
             h1 == IF found /= {}
                   THEN vec_remove(s.history, (CHOOSE i \in found : \A j \in found : i <= j) - 1)
                   ELSE s.history
             h2 == Append(h1, s.query)
             h3 == IF Len(h2) > MAX_HISTORY_SIZE THEN vec_remove(h2, 0) ELSE h2
         IN  [s EXCEPT !.history = h3]

(***************************************************************************)
(* Query parser                                                            *)
(***************************************************************************)
RECURSIVE split_whitespace(_)
\* str::split_whitespace: the maximal runs of non-whitespace, in order
split_whitespace(q) ==
    LET t == trim_start(q)
        rest == trim_start_non_whitespace(t)
    IN  IF t = <<>> THEN <<>>
        ELSE <<SubSeq(t, 1, Len(t) - Len(rest))>> \o split_whitespace(rest)

\* mutant: an insert keeps the value a key already has
map_insert_keep_first(m, k, v) ==
    [x \in (DOMAIN m) \cup {k} |-> IF x \in DOMAIN m THEN m[x] ELSE v]

\* HashMap::insert
map_insert(m, k, v) == [x \in (DOMAIN m) \cup {k} |-> IF x = k THEN v ELSE m[x]]

FetchOptions_new == <<>>

QUERY_KEY == <<"q", "u", "e", "r", "y">>

RECURSIVE parse_words(_, _, _)
\* the loop of parse_fetch_options over the words, then the final insert of "query"
parse_words(words, opts, remaining_text) ==
    IF words = <<>>
    THEN IF remaining_text /= <<>> THEN map_insert(opts, QUERY_KEY, remaining_text) ELSE opts
    ELSE LET word == Head(words)
             eqs == {i \in 2..Len(word) : word[i] = "="}
         IN  IF word[1] = "@" /\ eqs /= {}
             THEN LET e == CHOOSE i \in eqs : \A j \in eqs : i <= j
                  IN  parse_words(Tail(words),
                                  map_insert(opts, SubSeq(word, 2, e - 1),
                                             SubSeq(word, e + 1, Len(word))),
                                  remaining_text)
             ELSE parse_words(Tail(words), opts,
                              (IF remaining_text /= <<>> THEN remaining_text \o <<" ">>
                               ELSE remaining_text) \o word)

parse_fetch_options(query) == parse_words(split_whitespace(query), FetchOptions_new, <<>>)

(***************************************************************************)
(* FetchResult, FetchStatus, ItemFetcher and its worker threads            *)
(***************************************************************************)
\* the most threads (fetches) one session of the model spawns
MaxFetches == 2
\* the most items one response carries
MaxItems == 2

FetchResult_new == [append_items |-> FALSE, items |-> <<>>, more_items |-> TRUE, page |-> 1]
with_items(r, its) == [r EXCEPT !.items = r.items \o its]
with_more_items(r, more) == [r EXCEPT !.more_items = more]
with_append_items(r, append) == [r EXCEPT !.append_items = append]
with_page(r, page) == [r EXCEPT !.page = page]

Idle == [kind |-> "Idle", rx |-> 0]
Fetching(rx) == [kind |-> "Fetching", rx |-> rx]

is_fetching == status.kind = "Fetching"

\* mutant: a discarded receiver keeps what was sent to it
drop_receiver_kept(st, ch) == ch

\* dropping the Receiver held by a status drops what was sent to it
drop_receiver(st, ch) == IF st.kind = "Fetching" THEN [ch EXCEPT ![st.rx] = <<>>] ELSE ch

\* mutant: fetch does not record the options
spawn_options_unrecorded(st, ch, opts, page, fetch_result) ==
    /\ options' = options
    /\ threads' = Append(threads, [page |-> page, options |-> opts,
                                   fetch_result |-> fetch_result, state |-> "running"])
    /\ chan' = Append(drop_receiver(st, ch), <<>>)
    /\ status' = Fetching(Len(threads) + 1)

\* ItemFetcher::fetch called with the status st and the channels ch: records the
\* options, spawns the worker on a fresh channel and stores the receiver
spawn(st, ch, opts, page, fetch_result) ==
    /\ options' = opts
    /\ threads' = Append(threads, [page |-> page, options |-> opts,
                                   fetch_result |-> fetch_result, state |-> "running"])
    /\ chan' = Append(drop_receiver(st, ch), <<>>)
    /\ status' = Fetching(Len(threads) + 1)

\* ItemFetcher::fetch in a session of at most MaxFetches fetches
fetch_from(st, ch, opts, page, fetch_result) ==
    /\ Len(threads) < MaxFetches
    /\ spawn(st, ch, opts, page, fetch_result)

\* ItemFetcher::reset
reset_status == Idle

\* the items a forge returns to the n-item request of worker id
response_items(id, n) == [j \in 1..n |-> <<id, j>>]

\* what the fetch callbacks of cli/issue.rs and cli/pr.rs return
\* (worker names the sending thread; the code's message does not carry it)
callback_ok(id, n, more) ==
    [ok |-> TRUE, worker |-> id,
     value |-> with_more_items(with_items(threads[id].fetch_result, response_items(id, n)),
                               more)]

\* the fetch callback fails
callback_err(id) == [ok |-> FALSE, worker |-> id, value |-> FetchResult_new]

\* mutant: the thread ends without sending what the callback returned
worker_send_nothing(id, r) ==
    /\ threads[id].state = "running"
    /\ threads' = [threads EXCEPT ![id].state = "finished"]
    /\ chan' = chan

\* mutant: one channel shared by all workers, so a send reaches whatever the slot holds
worker_send_to_slot(id, r) ==
    /\ threads[id].state = "running"
    /\ threads' = [threads EXCEPT ![id].state = "finished"]
    /\ chan' = IF status.kind = "Fetching" THEN [chan EXCEPT ![status.rx] = Append(@, r)]
               ELSE chan

\* the thread spawned by ItemFetcher::fetch: the callback returns r, and tx.send(r)
\* delivers it unless the receiver has been dropped
worker_send(id, r) ==
    /\ threads[id].state = "running"
    /\ threads' = [threads EXCEPT ![id].state = "finished"]
    /\ chan' = IF status = Fetching(id) THEN [chan EXCEPT ![id] = Append(@, r)] ELSE chan

(***************************************************************************)
(* ListState (with ratatui's widgets::ListState) and PaginationState       *)
(***************************************************************************)
\* stands for usize::MAX (2^64 - 1 is beyond the integers of TLC); it is only
\* compared, saturated and clamped by the next render
USIZE_MAX == 1073741823 * 2 + 1
saturating_add(a, b) == IF a >= USIZE_MAX - b THEN USIZE_MAX ELSE a + b

\* usize `+` in a build without overflow checks
wrapping_add(a, b) == IF a > USIZE_MAX - b THEN a - (USIZE_MAX - b) - 1 ELSE a + b

append_items(its, new_items) == its \o new_items
replace_items_selected(new_items) == IF new_items = <<>> THEN None ELSE Some(0)

\* widgets::ListState::select_next
select_next(sel) == Some(IF sel = None THEN 0 ELSE saturating_add(Unwrap(sel), 1))

\* widgets::ListState::select_previous
select_previous(sel) == Some(IF sel = None THEN USIZE_MAX ELSE saturating_sub(Unwrap(sel), 1))

select_page_up(its, sel, page_size) ==
    IF page_size = 0 \/ its = <<>> THEN sel
    ELSE LET current == IF sel = None THEN 0 ELSE Unwrap(sel)
             jump == saturating_sub(page_size, 1)
         IN  Some(saturating_sub(current, jump))

select_page_down(its, sel, page_size) ==
    IF page_size = 0 \/ its = <<>> THEN sel
    ELSE LET current == IF sel = None THEN 0 ELSE Unwrap(sel)
             jump == saturating_sub(page_size, 1)
         IN  Some(saturating_add(current, jump))

PaginationState_default == [current_page |-> 0, per_page |-> 0, has_next_page |-> TRUE]
\* mutant: reset forgets has_next_page
PaginationState_reset_page_only(p) == [p EXCEPT !.current_page = 0]

PaginationState_reset(p) == [p EXCEPT !.current_page = 0, !.has_next_page = TRUE]

(***************************************************************************)
(* The command line outside the TUI: the remote URL (src/src/git.rs) and   *)
(* the configuration with its scopes (src/src/cli/config.rs).  The strings *)
(* here are ASCII, so a byte offset is a count of characters.              *)
(***************************************************************************)
RECURSIVE split(_, _)
\* str::split(c): the parts between the occurrences of c (at least one part)
split(s, c) ==
    LET at == {i \in 1..Len(s) : s[i] = c}
    IN  IF at = {} THEN <<s>>
        ELSE LET i == CHOOSE x \in at : \A y \in at : x <= y
             IN  <<SubSeq(s, 1, i - 1)>> \o split(SubSeq(s, i + 1, Len(s)), c)

\* str::splitn(2, c): the text before the first c and the text after it, or s alone
splitn2(s, c) ==
    LET at == {i \in 1..Len(s) : s[i] = c}
    IN  IF at = {} THEN <<s>>
        ELSE LET i == CHOOSE x \in at : \A y \in at : x <= y
             IN  <<SubSeq(s, 1, i - 1), SubSeq(s, i + 1, Len(s))>>

RECURSIVE join(_, _)
\* [&str]::join(sep)
join(parts, sep) ==
    IF parts = <<>> THEN <<>>
    ELSE IF Len(parts) = 1 THEN parts[1]
    ELSE parts[1] \o sep \o join(Tail(parts), sep)

\* str::strip_prefix
strip_prefix(s, p) ==
    IF Len(p) <= Len(s) /\ SubSeq(s, 1, Len(p)) = p
    THEN Some(SubSeq(s, Len(p) + 1, Len(s))) ELSE None

\* str::strip_suffix
strip_suffix(s, p) ==
    IF Len(p) <= Len(s) /\ SubSeq(s, Len(s) - Len(p) + 1, Len(s)) = p
    THEN Some(SubSeq(s, 1, Len(s) - Len(p))) ELSE None

\* Option::unwrap_or
unwrap_or(o, default) == IF IsSome(o) THEN Unwrap(o) ELSE default

\* str::rfind(c): Some(offset of the last c), or None
rfind(s, c) ==
    LET at == {i \in 1..Len(s) : s[i] = c}
    IN  IF at = {} THEN None ELSE Some((CHOOSE x \in at : \A y \in at : y <= x) - 1)

DIGITS == <<"0", "1", "2", "3", "4", "5", "6", "7", "8", "9">>

\* char::to_digit(10)
to_digit(c) == (CHOOSE d \in 1..10 : DIGITS[d] = c) - 1

U16_MAX == 65535

RECURSIVE from_digits(_, _)
\* the loop of u16::from_str over the digits: Some(number), None on a char that
\* is no digit and on overflow
from_digits(s, acc) ==
    IF s = <<>> THEN Some(acc)
    ELSE IF \A d \in 1..10 : DIGITS[d] /= Head(s) THEN None
    ELSE LET n == acc * 10 + to_digit(Head(s))
         IN  IF n > U16_MAX THEN None ELSE from_digits(Tail(s), n)

\* str::parse::<u16>: decimal digits after an optional '+', at least one digit
parse_u16(s) ==
    IF s = <<>> THEN None
    ELSE IF Head(s) = "+" THEN (IF Tail(s) = <<>> THEN None ELSE from_digits(Tail(s), 0))
    ELSE from_digits(s, 0)

RECURSIVE to_string(_)
\* u16::to_string, as format!("{}", port) prints the port
to_string(n) ==
    IF n < 10 THEN <<DIGITS[n + 1]>> ELSE to_string(n \div 10) \o <<DIGITS[(n % 10) + 1]>>

GitRemoteData(host, path, port) == [host |-> host, path |-> path, port |-> port]

\* parse_host_port: Some(<<host, port>>) for Ok, None for Err
parse_host_port(host_str) ==
    LET colon_pos == rfind(host_str, ":")
    IN  IF IsSome(colon_pos)
        THEN LET host == SubSeq(host_str, 1, Unwrap(colon_pos))
                 port_str == SubSeq(host_str, Unwrap(colon_pos) + 2, Len(host_str))
                 port == parse_u16(port_str)
             IN  IF IsSome(port) THEN Some(<<host, port>>) ELSE None
        ELSE Some(<<host_str, None>>)

DOT_GIT == <<".", "g", "i", "t">>
HTTPS_PREFIX == <<"h", "t", "t", "p", "s", ":", "/", "/">>
SSH_PREFIX == <<"s", "s", "h", ":", "/", "/", "g", "i", "t", "@">>
GIT_PREFIX == <<"g", "i", "t", "@">>

\* the branch of parse_remote_url for https:// and for ssh://git@, after the prefix
parse_host_port_path(rest) ==
    LET parts == splitn2(rest, "/")
    IN  IF Len(parts) /= 2 THEN None
        ELSE LET hp == parse_host_port(parts[1])
             IN  IF hp = None THEN None
                 ELSE Some(GitRemoteData(Unwrap(hp)[1],
                                         unwrap_or(strip_suffix(parts[2], DOT_GIT), parts[2]),
                                         Unwrap(hp)[2]))

\* mutant: the git@ form reads a port as the https form does
parse_git_form_with_port(rest) ==
    LET parts == splitn2(rest, ":")
    IN  IF Len(parts) /= 2 THEN None
        ELSE parse_host_port_path(rest)

\* the branch of parse_remote_url for git@<host>:<path>, after the prefix
parse_git_form(rest) ==
    LET parts == splitn2(rest, ":")
    IN  IF Len(parts) /= 2 THEN None
        ELSE Some(GitRemoteData(parts[1],
                                unwrap_or(strip_suffix(parts[2], DOT_GIT), parts[2]),
                                None))

\* Option<GitRemoteData>
parse_remote_url(u) ==
    IF IsSome(strip_prefix(u, HTTPS_PREFIX))
    THEN parse_host_port_path(Unwrap(strip_prefix(u, HTTPS_PREFIX)))
    ELSE IF IsSome(strip_prefix(u, SSH_PREFIX))
    THEN parse_host_port_path(Unwrap(strip_prefix(u, SSH_PREFIX)))
    ELSE IF IsSome(strip_prefix(u, GIT_PREFIX))
    THEN parse_git_form(Unwrap(strip_prefix(u, GIT_PREFIX)))
    ELSE None

\* remote before git::get_remote_data ran, and what it returned: Ok(data), the
\* Err of a URL that is not recognised, and the Err of a git command that failed
NotParsed == [parsed |-> FALSE, data |-> None, error |-> ""]
Parsed(data) ==
    [parsed |-> TRUE, data |-> data, error |-> IF data = None THEN "format" ELSE ""]
GitFailed == [parsed |-> TRUE, data |-> None, error |-> "git"]

\* git::get_remote_url on the text the git command wrote to its standard output
get_remote_url(stdout) == trim(stdout)

Config_default == [global |-> <<>>, host |-> <<>>, remote |-> <<>>]

format_remote_key(r) ==
    IF IsSome(r.port)
    THEN r.host \o <<":">> \o to_string(Unwrap(r.port)) \o <<"/">> \o r.path
    ELSE r.host \o <<"/">> \o r.path

format_host_key(r) ==
    IF IsSome(r.port) THEN r.host \o <<":">> \o to_string(Unwrap(r.port)) ELSE r.host

\* mutant: the levels of the command path are removed from its start
get_path_variants_from_start(path) ==
    LET parts == split(path, "/")
        flag_index == Len(parts)
        flag == parts[flag_index]
        command_path_parts == SubSeq(parts, 1, flag_index - 1)
        n == Len(command_path_parts)
    IN  IF command_path_parts = <<>> THEN <<flag>>
        ELSE <<path>>
             \o [k \in 1..(n - 1) |->
                    join(SubSeq(command_path_parts, k + 1, n), <<"/">>) \o <<"/">> \o flag]
             \o <<flag>>

\* the variants in the order in which the lookup tries them
get_path_variants(path) ==
    LET parts == split(path, "/")
        flag_index == Len(parts)
        flag == parts[flag_index]
        command_path_parts == SubSeq(parts, 1, flag_index - 1)
        n == Len(command_path_parts)
    IN  IF command_path_parts = <<>> THEN <<flag>>
        ELSE <<path>>
             \o [k \in 1..(n - 1) |->
                    join(SubSeq(command_path_parts, 1, n - k), <<"/">>) \o <<"/">> \o flag]
             \o <<flag>>

\* `for variant in path_variants { if let Some(value) = map.get(&variant) ... }`
first_variant_in(map, path_variants) ==
    LET hits == {i \in 1..Len(path_variants) : path_variants[i] \in DOMAIN map}
    IN  IF hits = {} THEN None
        ELSE Some(map[path_variants[CHOOSE i \in hits : \A j \in hits : i <= j]])

\* ConfigSource: Global, Host(remote), Remote(remote)
ConfigSource(scope, r) == [scope |-> scope, remote |-> r]

\* Config::get_value_from_scope
get_value_from_scope(cfg, path, source) ==
    LET path_variants == get_path_variants(path)
    IN  IF source.scope = "Global" THEN first_variant_in(cfg.global, path_variants)
        ELSE IF source.scope = "Host"
        THEN LET host_key == format_host_key(source.remote)
             IN  IF host_key \in DOMAIN cfg.host
                 THEN first_variant_in(cfg.host[host_key], path_variants) ELSE None
        ELSE LET remote_key == format_remote_key(source.remote)
             IN  IF remote_key \in DOMAIN cfg.remote
                 THEN first_variant_in(cfg.remote[remote_key], path_variants) ELSE None

\* mutant: the host scope is consulted before the remote scope
get_value_effective_host_first(cfg, path, r) ==
    LET from_remote == IF IsSome(r)
                       THEN get_value_from_scope(cfg, path, ConfigSource("Remote", Unwrap(r)))
                       ELSE None
        from_host == IF IsSome(r)
                     THEN get_value_from_scope(cfg, path, ConfigSource("Host", Unwrap(r)))
                     ELSE None
        from_global == get_value_from_scope(cfg, path, ConfigSource("Global", None))
    IN  IF IsSome(from_host) THEN Some(<<Unwrap(from_host), "Host">>)
        ELSE IF IsSome(from_remote) THEN Some(<<Unwrap(from_remote), "Remote">>)
        ELSE IF IsSome(from_global) THEN Some(<<Unwrap(from_global), "Global">>)
        ELSE None

\* Config::get_value_effective: Option<(String, ConfigScope)>
get_value_effective(cfg, path, r) ==
    LET from_remote == IF IsSome(r)
                       THEN get_value_from_scope(cfg, path, ConfigSource("Remote", Unwrap(r)))
                       ELSE None
        from_host == IF IsSome(r)
                     THEN get_value_from_scope(cfg, path, ConfigSource("Host", Unwrap(r)))
                     ELSE None
        from_global == get_value_from_scope(cfg, path, ConfigSource("Global", None))
    IN  IF IsSome(from_remote) THEN Some(<<Unwrap(from_remote), "Remote">>)
        ELSE IF IsSome(from_host) THEN Some(<<Unwrap(from_host), "Host">>)
        ELSE IF IsSome(from_global) THEN Some(<<Unwrap(from_global), "Global">>)
        ELSE None

\* HashMap::entry(key).or_default().insert(path, value)
entry_insert(m, key, path, value) ==
    map_insert(m, key, map_insert(IF key \in DOMAIN m THEN m[key] ELSE <<>>, path, value))

\* Config::set_value
set_value(cfg, path, value, source) ==
    IF source.scope = "Global"
    THEN [cfg EXCEPT !.global = map_insert(cfg.global, path, value)]
    ELSE IF source.scope = "Host"
    THEN [cfg EXCEPT !.host = entry_insert(cfg.host, format_host_key(source.remote), path, value)]
    ELSE [cfg EXCEPT !.remote =
             entry_insert(cfg.remote, format_remote_key(source.remote), path, value)]

\* HashMap::remove
map_remove(m, k) == [x \in (DOMAIN m) \ {k} |-> m[x]]

\* the removal of path from the settings under key, and of key when none are left
entry_remove(m, key, path) ==
    IF key \in DOMAIN m
    THEN LET inner == map_remove(m[key], path)
         IN  IF DOMAIN inner = {} THEN map_remove(m, key) ELSE map_insert(m, key, inner)
    ELSE m

\* `remove(path).is_some()` on the settings under key: was there one for path
entry_removed(m, key, path) == key \in DOMAIN m /\ path \in DOMAIN m[key]

\* Config::unset_value: the Config it leaves in `self` and the bool it returns,
\* true if a setting was removed (a table left without settings is dropped
\* either way)
unset_value(cfg, path, source) ==
    IF source.scope = "Global"
    THEN [config |-> [cfg EXCEPT !.global = map_remove(cfg.global, path)],
          was_removed |-> path \in DOMAIN cfg.global]
    ELSE IF source.scope = "Host"
    THEN LET host_key == format_host_key(source.remote)
         IN  [config |-> [cfg EXCEPT !.host = entry_remove(cfg.host, host_key, path)],
              was_removed |-> entry_removed(cfg.host, host_key, path)]
    ELSE LET remote_key == format_remote_key(source.remote)
         IN  [config |-> [cfg EXCEPT !.remote = entry_remove(cfg.remote, remote_key, path)],
              was_removed |-> entry_removed(cfg.remote, remote_key, path)]

\* the names of the tables of Config: a setting of the global scope with one of
\* these names is written where the table of that name is read
TABLE_NAMES == {<<"h", "o", "s", "t">>, <<"r", "e", "m", "o", "t", "e">>}

\* Config::save_to_disk(cfg) that succeeds: what the written file loads as.
\* `global` is flattened into the top level of the TOML text, beside the tables
\* host and remote
save_to_disk(cfg) == IF TABLE_NAMES \cap DOMAIN cfg.global = {} THEN Some(cfg) ELSE None

\* the `config` commands: no `config set` or `config unset` and no
\* `config edit` is running. pc is the position of the set or unset command:
\* "idle", "loaded" after load_from_disk (config is what it loaded, scope the
\* scope it was called with), "sourced" after ConfigSource::new (source is what
\* it got), and "ok" or "err" when it has returned; edit is the position of
\* `config edit`: "closed", "open" while its editor runs, and "ok" or "err" when
\* it has returned
Cli_default ==
    [pc |-> "idle", scope |-> "", config |-> Config_default,
     source |-> ConfigSource("Global", None), edit |-> "closed"]

(***************************************************************************)
(* App                                                                     *)
(***************************************************************************)
\* the most rows the list area of the model's terminal has: more than a response
\* carries items (MaxItems), so that placeholder rows follow a loaded page
MaxHeight == 3
\* the queries into which the model of the whole App types a character: its
\* searches are one character long (the editor is explored further in SpecEditor)
TypableAt == {<<>>}

\* the rows of the list area in the frames of the model: one row, where the
\* List widget holds the loaded items alone and every draw moves the highlight
\* back onto one of them, and MaxHeight rows, where render_list adds placeholder
\* rows behind the items while more pages exist and the highlight may rest on a
\* placeholder.  Every frame has a list row, so that every draw outside the help
\* overlay passes the selection through the List widget
Heights == {1, MaxHeight}

Normal(focus) == [kind |-> "Normal", focus |-> focus]
\* mutant: the help overlay does not remember the focus
Help_of_list(focus) == [kind |-> "Help", focus |-> "List"]
Help(focus) == [kind |-> "Help", focus |-> focus]
Mode_default == Normal("List")

Running == [kind |-> "Running", index |-> None, msg |-> ""]
Err(msg) == [kind |-> "Err", index |-> None, msg |-> msg]
Ok(index) == [kind |-> "Ok", index |-> Some(index), msg |-> ""]
Panicked == [kind |-> "Panic", index |-> None, msg |-> "not a char boundary"]

fetcherVars == <<status, options, threads, chan>>

\* the characters the model types as text
TypedChars == {"a"}

KeyCodes == {"Esc", "Tab", "BackTab", "Up", "Down", "PageUp", "PageDown", "Enter",
             "Backspace", "Delete", "Left", "Right", "Home", "End", "F1"}

\* crossterm KeyEvent: code (with the char of KeyCode::Char), CONTROL and ALT modifiers
Keys ==
    [code : KeyCodes, char : {""}, ctrl : {FALSE}, alt : {FALSE}]
    \cup [code : {"Backspace", "Delete", "Left", "Right"}, char : {""},
          ctrl : {FALSE}, alt : {TRUE}]
    \cup [code : {"Left", "Right"}, char : {""}, ctrl : {TRUE}, alt : {FALSE}]
    \cup [code : {"Char"}, char : TypedChars \cup {"?"}, ctrl : {FALSE}, alt : {FALSE}]
    \cup [code : {"Char"}, char : {"c", "a", "e", "l"}, ctrl : {TRUE}, alt : {FALSE}]

\* App::into_item, and what select_item_with returns for UserAction::Select(index)
into_item(index) == IF index < Len(items) THEN Ok(index) ELSE Err("Invalid selection")

\* UserAction::None: the loop of select_item_with goes on
ActionNone == pc' = "draw" /\ result' = result

\* mutant: UserAction::Quit does not end the loop
ActionQuit_ignored == pc' = "draw" /\ result' = result

\* UserAction::Quit
ActionQuit == pc' = "done" /\ result' = Err("Selection aborted")

\* UserAction::Select(index)
ActionSelect(index) == pc' = "done" /\ result' = into_item(index)

Init ==
    /\ mode = Mode_default
    /\ status = Idle
    /\ options = FetchOptions_new
    /\ threads = <<>>
    /\ chan = <<>>
    /\ items = <<>>
    /\ selected = None
    /\ pagination = PaginationState_default
    /\ search = SearchState_default
    /\ pc = "draw"
    /\ result = Running
    /\ merged = <<>>
    /\ config = Some(Config_default)
    /\ url = <<>>
    /\ remote = NotParsed
    /\ cli = Cli_default

\* the stateful render of ratatui's List widget with n rows in a non-empty area:
\* an empty list unselects, a selection past the end moves to the last row
list_render(sel, n) ==
    IF n = 0 THEN None
    ELSE IF IsSome(sel) /\ Unwrap(sel) >= n THEN Some(n - 1)
    ELSE sel

\* the number of rows render_list hands to the List widget
list_rows(height) ==
    IF items = <<>> THEN 1
    ELSE IF pagination.has_next_page THEN Max(Len(items), height)
    ELSE Len(items)

\* App::render on a terminal whose list area has `height` rows
render(height) ==
    IF mode.kind = "Help"
    THEN UNCHANGED <<pagination, selected>>
    ELSE /\ pagination' = [pagination EXCEPT !.per_page = height]
         /\ selected' = list_render(selected, list_rows(height))

\* terminal.draw(|frame| app.render(frame))
Draw ==
    /\ pc = "draw"
    /\ \E height \in Heights : render(height)
    /\ pc' = "update"
    /\ UNCHANGED <<mode, fetcherVars, items, search, result, merged>>
    /\ UNCHANGED cliVars

LOAD_THRESHOLD == 1

\* the lookahead test of App::update, where `selected + 1` does not panic
reached_end_of_page ==
    /\ mode = Normal("List")
    /\ IF IsSome(selected)
       THEN saturating_sub(Len(items), wrapping_add(Unwrap(selected), 1)) < LOAD_THRESHOLD
       ELSE TRUE

\* mutant: the lookahead asks for the page after the next
lookahead_page_skip == pagination.current_page + 2

\* `let page = self.pagination.current_page + 1;` of fetch_and_append_items
lookahead_page == pagination.current_page + 1

fetch_and_append_items(opts) ==
    LET page == lookahead_page
        fetch_result == with_append_items(with_page(FetchResult_new, page), TRUE)
    IN  fetch_from(status, chan, opts, page, fetch_result)

\* mutant: the submission of a search does not reset the pagination
fetch_and_replace_items_no_reset(opts) ==
    LET page == 1
        fetch_result == with_append_items(with_page(FetchResult_new, page), FALSE)
    IN  /\ pagination' = pagination
        /\ fetch_from(reset_status, drop_receiver(status, chan), opts, page, fetch_result)

fetch_and_replace_items(opts) ==
    LET page == 1
        fetch_result == with_append_items(with_page(FetchResult_new, page), FALSE)
    IN  /\ pagination' = PaginationState_reset(pagination)
        /\ fetch_from(reset_status, drop_receiver(status, chan), opts, page, fetch_result)

\* mutant: the lookahead starts one item early (<= for <)
should_fetch_early ==
    /\ ~is_fetching /\ pagination.has_next_page /\ mode = Normal("List")
    /\ IF IsSome(selected)
       THEN saturating_sub(Len(items), wrapping_add(Unwrap(selected), 1)) <= LOAD_THRESHOLD
       ELSE TRUE

\* does this tick start a lookahead fetch
should_fetch == ~is_fetching /\ pagination.has_next_page /\ reached_end_of_page

\* the lookahead test of App::update adds 1 to the selected index with a plain
\* `+`, whatever the fetcher and the pagination say: on usize::MAX a build with
\* overflow checks panics, a build without them wraps to 0
update_overflows ==
    mode = Normal("List") /\ IsSome(selected) /\ Unwrap(selected) > USIZE_MAX - 1

\* App::update, its first half: the lookahead fetch
UpdateFetch ==
    /\ pc = "update"
    /\ \E overflow_checks \in (IF update_overflows THEN BOOLEAN ELSE {FALSE}) :
          IF overflow_checks
          THEN /\ pc' = "done"
               /\ result' = Panicked
               /\ UNCHANGED fetcherVars
          ELSE /\ IF should_fetch
                  THEN fetch_and_append_items(options)
                  ELSE UNCHANGED fetcherVars
               /\ pc' = "poll_result"
               /\ result' = result
    /\ UNCHANGED <<mode, items, selected, pagination, search, merged>>
    /\ UNCHANGED cliVars

\* mutant: nothing is taken while the help overlay is shown
poll_ready_outside_help ==
    mode.kind = "Normal" /\ status.kind = "Fetching" /\ chan[status.rx] /= <<>>

\* ItemFetcher::poll_result: is there a result to take
poll_ready == status.kind = "Fetching" /\ chan[status.rx] /= <<>>

\* mutant: the merge does not select the first item when nothing is selected
merged_selected_none(fetch_result) ==
    IF fetch_result.append_items THEN selected
    ELSE replace_items_selected(fetch_result.items)

\* the selection after the merge of fetch_result
merged_selected(fetch_result) ==
    LET sel == IF fetch_result.append_items THEN selected
               ELSE replace_items_selected(fetch_result.items)
    IN  IF sel = None THEN select_next(sel) ELSE sel

\* mutant: every merge appends, whatever append_items says
merged_items_always_append(fetch_result) == append_items(items, fetch_result.items)

\* the items after the merge of fetch_result
merged_items(fetch_result) ==
    IF fetch_result.append_items THEN append_items(items, fetch_result.items)
    ELSE fetch_result.items

\* mutant: the error of a fetch is dropped and the loop goes on
fetch_failed_ignored ==
    /\ pc' = "event"
    /\ result' = result
    /\ UNCHANGED <<items, selected, pagination, merged>>

\* `let fetch_result = fetch_result?;` on an Err: App::update returns the error,
\* and `app.update()?` in select_item_with ends the session with it
fetch_failed ==
    /\ pc' = "done"
    /\ result' = Err("fetch failed")
    /\ UNCHANGED <<items, selected, pagination, merged>>

\* App::update, its second half: poll_result, then the merge or the error
UpdatePoll ==
    /\ pc = "poll_result"
    /\ IF poll_ready
       THEN LET r == Head(chan[status.rx])
            IN  /\ status' = Idle
                /\ chan' = [chan EXCEPT ![status.rx] = <<>>]
                /\ IF r.ok
                   THEN /\ items' = merged_items(r.value)
                        /\ selected' = merged_selected(r.value)
                        /\ pagination' = [pagination EXCEPT
                               !.current_page = r.value.page,
                               !.has_next_page = r.value.more_items]
                        /\ merged' = Append(merged, r.worker)
                        /\ pc' = "event"
                        /\ result' = result
                   ELSE fetch_failed
       ELSE /\ pc' = "event"
            /\ UNCHANGED <<status, chan, items, selected, pagination, result, merged>>
    /\ UNCHANGED <<mode, options, threads, search>>
    /\ UNCHANGED cliVars

\* event::poll timed out, or the event read is no key event
NoKeyEvent ==
    /\ pc = "event"
    /\ pc' = "draw"
    /\ UNCHANGED <<mode, fetcherVars, items, selected, pagination, search, result, merged>>
    /\ UNCHANGED cliVars

\* mutant: a key event that is no press is handled as Esc in the list is
KeyNotPress_quits ==
    /\ pc = "event"
    /\ \E kind \in {"Repeat", "Release"} : ActionQuit
    /\ UNCHANGED <<mode, fetcherVars, items, selected, pagination, search, merged>>
    /\ UNCHANGED cliVars

\* App::handle_key_event for a key event whose kind is Repeat or Release
KeyNotPress ==
    /\ pc = "event"
    /\ \E kind \in {"Repeat", "Release"} : ActionNone
    /\ UNCHANGED <<mode, fetcherVars, items, selected, pagination, search, merged>>
    /\ UNCHANGED cliVars

\* does the press of key insert its character into the query: in Normal(focus)
\* the arm KeyCode::Char(char) does, whatever the modifiers, for the characters
\* the arms before it leave; in Help(_) no key does
inserts_char(key) ==
    /\ key.code = "Char"
    /\ IF mode = Normal("List")
       THEN key.char /= "?" /\ ~(key.char = "c" /\ key.ctrl)
       ELSE IF mode = Normal("SearchBar")
       THEN /\ ~(key.ctrl /\ key.char \in {"c", "a", "e", "l"})
            /\ ~(key.char = "?" /\ search.query = <<>>)
       ELSE FALSE

\* mutant: Tab in the list moves the cursor of the editor to the start
list_widget_tab_moves_cursor ==
    /\ mode' = Normal("SearchBar")
    /\ search' = move_cursor_to_start(search)
    /\ UNCHANGED selected

\* the arm KeyCode::Tab | KeyCode::BackTab of handle_key_event_list_widget
list_widget_tab == mode' = Normal("SearchBar") /\ UNCHANGED <<search, selected>>

handle_key_event_list_widget(key) ==
    IF key.code = "Esc" THEN
        ActionQuit /\ UNCHANGED <<mode, search, selected>>
    ELSE IF key.code = "Char" /\ key.char = "c" /\ key.ctrl THEN
        ActionQuit /\ UNCHANGED <<mode, search, selected>>
    ELSE IF key.code = "Char" /\ key.char = "?" THEN
        mode' = Help("List") /\ ActionNone /\ UNCHANGED <<search, selected>>
    ELSE IF key.code = "Char" THEN
        /\ mode' = Normal("SearchBar")
        /\ search' = insert_char_at_cursor(search, key.char)
        /\ ActionNone /\ UNCHANGED selected
    ELSE IF key.code \in {"Tab", "BackTab"} THEN
        list_widget_tab /\ ActionNone
    ELSE IF key.code = "Up" THEN
        selected' = select_previous(selected) /\ ActionNone /\ UNCHANGED <<mode, search>>
    ELSE IF key.code = "Down" THEN
        selected' = select_next(selected) /\ ActionNone /\ UNCHANGED <<mode, search>>
    ELSE IF key.code = "PageUp" THEN
        /\ selected' = select_page_up(items, selected, pagination.per_page)
        /\ ActionNone /\ UNCHANGED <<mode, search>>
    ELSE IF key.code = "PageDown" THEN
        /\ selected' = select_page_down(items, selected, pagination.per_page)
        /\ ActionNone /\ UNCHANGED <<mode, search>>
    ELSE IF key.code = "Enter" THEN
        /\ IF IsSome(selected) THEN ActionSelect(Unwrap(selected)) ELSE ActionNone
        /\ UNCHANGED <<mode, search, selected>>
    ELSE ActionNone /\ UNCHANGED <<mode, search, selected>>

\* App::handle_key_event for a key press in Normal(List)
KeyInList ==
    /\ pc = "event"
    /\ mode = Normal("List")
    /\ \E key \in Keys :
          /\ inserts_char(key) => search.query \in TypableAt
          /\ handle_key_event_list_widget(key)
    /\ UNCHANGED <<fetcherVars, items, pagination, merged>>
    /\ UNCHANGED cliVars

\* the arms of handle_key_event_search_bar_widget that only edit the SearchState
search_bar_edit(key) ==
    IF key.code = "Char" /\ key.char = "a" /\ key.ctrl THEN move_cursor_to_start(search)
    ELSE IF key.code = "Char" /\ key.char = "e" /\ key.ctrl THEN move_cursor_to_end(search)
    ELSE IF key.code = "Char" /\ key.char = "l" /\ key.ctrl THEN clear(search)
    ELSE IF key.code = "Char" THEN
        insert_char_at_cursor(exit_history_browsing(search), key.char)
    ELSE IF key.code = "Backspace" THEN
        IF key.alt THEN delete_word_before_cursor(exit_history_browsing(search))
        ELSE delete_char_before_cursor(exit_history_browsing(search))
    ELSE IF key.code = "Delete" THEN
        IF key.alt THEN delete_word_after_cursor(exit_history_browsing(search))
        ELSE delete_char_after_cursor(exit_history_browsing(search))
    ELSE IF key.code = "Left" THEN
        IF key.alt \/ key.ctrl THEN move_cursor_left_word(search) ELSE move_cursor_left(search)
    ELSE IF key.code = "Right" THEN
        IF key.alt \/ key.ctrl THEN move_cursor_right_word(search)
        ELSE move_cursor_right(search)
    ELSE IF key.code = "Up" THEN navigate_history_up(search)
    ELSE IF key.code = "Down" THEN navigate_history_down(search)
    ELSE IF key.code = "Home" THEN move_cursor_to_start(search)
    ELSE IF key.code = "End" THEN move_cursor_to_end(search)
    ELSE search

\* the key presses at which a word operation of the SearchState panics
search_bar_panics(key) ==
    \/ key.code = "Backspace" /\ key.alt /\ delete_word_before_cursor_panics(search)
    \/ key.code = "Left" /\ (key.alt \/ key.ctrl) /\ move_cursor_left_word_panics(search)

handle_key_event_search_bar_widget(key) ==
    IF key.code = "Esc" THEN
        IF has_query(search)
        THEN search' = clear(search) /\ ActionNone /\ UNCHANGED <<mode, fetcherVars, pagination>>
        ELSE ActionQuit /\ UNCHANGED <<mode, search, fetcherVars, pagination>>
    ELSE IF key.code = "Char" /\ key.char = "c" /\ key.ctrl THEN
        ActionQuit /\ UNCHANGED <<mode, search, fetcherVars, pagination>>
    ELSE IF key.code = "Char" /\ key.char = "?" /\ search.query = <<>> THEN
        mode' = Help("SearchBar") /\ ActionNone /\ UNCHANGED <<search, fetcherVars, pagination>>
    ELSE IF key.code \in {"Tab", "BackTab"} THEN
        mode' = Normal("List") /\ ActionNone /\ UNCHANGED <<search, fetcherVars, pagination>>
    ELSE IF key.code = "Enter" THEN
        /\ search' = clear(save_to_history(search))
        /\ mode' = Normal("List")
        /\ fetch_and_replace_items(parse_fetch_options(search.query))
        /\ ActionNone
    ELSE IF search_bar_panics(key) THEN
        /\ pc' = "done"
        /\ result' = Panicked
        /\ UNCHANGED <<mode, search, fetcherVars, pagination>>
    ELSE
        /\ search' = search_bar_edit(key)
        /\ ActionNone
        /\ UNCHANGED <<mode, fetcherVars, pagination>>

\* App::handle_key_event for a key press in Normal(SearchBar)
KeyInSearchBar ==
    /\ pc = "event"
    /\ mode = Normal("SearchBar")
    /\ \E key \in Keys :
          /\ inserts_char(key) => search.query \in TypableAt
          /\ handle_key_event_search_bar_widget(key)
    /\ UNCHANGED <<items, selected, merged>>
    /\ UNCHANGED cliVars

handle_key_event_help_widget(key) ==
    IF key.code = "Char" /\ key.char = "c" /\ key.ctrl THEN
        ActionQuit /\ UNCHANGED mode
    ELSE IF key.code \in {"Esc", "Enter", "Char"} THEN
        mode' = Normal(mode.focus) /\ ActionNone
    ELSE ActionNone /\ UNCHANGED mode

\* App::handle_key_event for a key press in Help(_)
KeyInHelp ==
    /\ pc = "event"
    /\ mode.kind = "Help"
    /\ \E key \in Keys : handle_key_event_help_widget(key)
    /\ UNCHANGED <<fetcherVars, items, selected, pagination, search, merged>>
    /\ UNCHANGED cliVars

\* the responses a fetch callback may return to worker id
Responses(id) ==
    {callback_ok(id, n, more) : n \in 0..MaxItems, more \in BOOLEAN} \cup {callback_err(id)}

\* a worker thread's callback returns and the thread sends the result
WorkerFinish ==
    /\ result = Running
    /\ \E id \in 1..Len(threads) : \E r \in Responses(id) : worker_send(id, r)
    /\ UNCHANGED <<mode, status, options, items, selected, pagination, search, pc,
                   result, merged>>
    /\ UNCHANGED cliVars

Next ==
    \/ Draw
    \/ UpdateFetch
    \/ UpdatePoll
    \/ NoKeyEvent
    \/ KeyNotPress
    \/ KeyInList
    \/ KeyInSearchBar
    \/ KeyInHelp
    \/ WorkerFinish

Spec == Init /\ [][Next]_vars

(***************************************************************************)
(* The line editor alone: the key presses that reach the SearchState, in   *)
(* any order (a tick and a render never touch it), over an alphabet with   *)
(* combining marks, regional indicators and multi-byte whitespace.         *)
(***************************************************************************)
\* the longest query the editor model types
MaxLen == 3
\* the most history entries the editor model saves
MaxHist == 1

EditorChars == {"a", " ", "U+00A0", "U+0301", "U+1F1E9"}

EditorKeys ==
    [code : {"Backspace", "Delete", "Left", "Right", "Up", "Down", "Home", "End"},
     char : {""}, ctrl : {FALSE}, alt : BOOLEAN]
    \cup [code : {"Char"}, char : EditorChars \cup {"?"}, ctrl : {FALSE}, alt : {FALSE}]
    \cup [code : {"Char"}, char : {"a", "e", "l"}, ctrl : {TRUE}, alt : {FALSE}]


\* a key press in Normal(SearchBar) that edits the SearchState, or panics in it
EditorKey ==
    /\ result = Running
    /\ mode = Normal("SearchBar")
    /\ \E key \in EditorKeys :
          /\ ~(key.code = "Char" /\ key.char = "?" /\ search.query = <<>>)
          /\ key.code = "Char" /\ ~key.ctrl => Len(search.query) < MaxLen
          /\ IF search_bar_panics(key)
             THEN result' = Panicked /\ search' = search
             ELSE result' = result /\ search' = search_bar_edit(key)
    /\ UNCHANGED <<mode, fetcherVars, items, selected, pagination, pc, merged>>
    /\ UNCHANGED cliVars

\* Esc in Normal(SearchBar) with a query
EditorEsc ==
    /\ result = Running
    /\ mode = Normal("SearchBar")
    /\ has_query(search)
    /\ search' = clear(search)
    /\ UNCHANGED <<mode, fetcherVars, items, selected, pagination, pc, result, merged>>
    /\ UNCHANGED cliVars

\* the searches submitted in a run of the editor
EditorSubmits == 1

\* Enter in Normal(SearchBar): the query is parsed, saved and cleared, the list
\* takes the focus and the first page of the search is fetched
EditorEnter ==
    /\ result = Running
    /\ mode = Normal("SearchBar")
    /\ Len(save_to_history(search).history) <= MaxHist
    /\ Len(threads) < EditorSubmits
    /\ search' = clear(save_to_history(search))
    /\ mode' = Normal("List")
    /\ fetch_and_replace_items(parse_fetch_options(search.query))
    /\ UNCHANGED <<items, selected, pc, result, merged>>
    /\ UNCHANGED cliVars

\* a character typed in Normal(List)
EditorTypeInList ==
    /\ result = Running
    /\ mode = Normal("List")
    /\ Len(search.query) < MaxLen
    /\ \E char \in EditorChars :
          search' = insert_char_at_cursor(search, char)
    /\ mode' = Normal("SearchBar")
    /\ UNCHANGED <<fetcherVars, items, selected, pagination, pc, result, merged>>
    /\ UNCHANGED cliVars

\* Tab or BackTab in Normal(List) or Normal(SearchBar)
EditorTab ==
    /\ result = Running
    /\ mode.kind = "Normal"
    /\ mode' = Normal(IF mode.focus = "List" THEN "SearchBar" ELSE "List")
    /\ UNCHANGED <<fetcherVars, items, selected, pagination, search, pc, result, merged>>
    /\ UNCHANGED cliVars

NextEditor ==
    \/ EditorKey
    \/ EditorEsc
    \/ EditorEnter
    \/ EditorTypeInList
    \/ EditorTab

SpecEditor == Init /\ [][NextEditor]_vars

(***************************************************************************)
(* The paging scenario: a forge with two pages, browsed with the keys of   *)
(* the list.                                                               *)
(***************************************************************************)
\* the items on page 1 and on page 2 of the scenario's forge
Page1Items == 30
Page2Items == 10

\* what the scenario's forge answers to the request of worker id
scenario_response(id) ==
    IF threads[id].page = 1 THEN callback_ok(id, Page1Items, TRUE)
    ELSE callback_ok(id, Page2Items, FALSE)

ScenarioWorkerFinish ==
    /\ result = Running
    /\ \E id \in 1..Len(threads) : worker_send(id, scenario_response(id))
    /\ UNCHANGED <<mode, status, options, items, selected, pagination, search, pc,
                   result, merged>>
    /\ UNCHANGED cliVars

\* the rows of the list area in the frames of the scenario: one row, and more
\* rows than page 1 has items, so that placeholder rows follow the loaded page
ScenarioHeights == {1, Page1Items + 2}

\* terminal.draw(|frame| app.render(frame)) on the terminal of the scenario
ScenarioDraw ==
    /\ pc = "draw"
    /\ \E height \in ScenarioHeights : render(height)
    /\ pc' = "update"
    /\ UNCHANGED <<mode, fetcherVars, items, search, result, merged>>
    /\ UNCHANGED cliVars

\* a key press in Normal(List) that moves the highlight
ScenarioKey ==
    /\ pc = "event"
    /\ mode = Normal("List")
    /\ \E key \in {k \in Keys : k.code \in {"Up", "Down", "PageUp", "PageDown"}} :
          handle_key_event_list_widget(key)
    /\ UNCHANGED <<fetcherVars, items, pagination, merged>>
    /\ UNCHANGED cliVars

NextScenario ==
    \/ ScenarioDraw
    \/ UpdateFetch
    \/ UpdatePoll
    \/ NoKeyEvent
    \/ ScenarioKey
    \/ ScenarioWorkerFinish

SpecScenario == Init /\ [][NextScenario]_vars

(***************************************************************************)
(* Properties                                                              *)
(***************************************************************************)
Last(seq) == seq[Len(seq)]
InMerged(id) == \E i \in 1..Len(merged) : merged[i] = id
IsReplace(id) == ~threads[id].fetch_result.append_items
\* a Replace fetch was scheduled after the fetch of worker a
Superseded(a) == \E b \in (a + 1)..Len(threads) : IsReplace(b)
\* this step of App::update merges a successful result
MergeStep == pc = "poll_result" /\ pc' = "event" /\ poll_ready /\ Head(chan[status.rx]).ok
\* this step schedules a fetch
ScheduleStep == Len(threads') > Len(threads)

\* C1 (stale-result immunity): a result of a fetch A that a later Replace fetch B
\* superseded before it was merged is never merged, whenever its worker finishes;
\* the step that merges B's result merges B's own response and leaves the list,
\* current_page and has_next_page exactly as in that response; and from then on
\* no item of a fetch older than B is in the list.
C1_StaleResultImmunity ==
    /\ [][\A a \in 1..Len(threads) :
             (Superseded(a) /\ ~InMerged(a)) => ~(InMerged(a))']_vars
    /\ [][(MergeStep /\ IsReplace(status.rx)) =>
             LET r == Head(chan[status.rx])
             IN  /\ r.worker = status.rx
                 /\ items' = response_items(status.rx, Len(r.value.items))
                 /\ pagination'.current_page = threads[status.rx].page
                 /\ pagination'.has_next_page = r.value.more_items]_vars
    /\ [](\A b \in 1..Len(threads) : \A i \in 1..Len(items) :
             (IsReplace(b) /\ InMerged(b)) => items[i][1] >= b)

\* C1 witness: the superseded worker has finished, unmerged, and the result of the
\* Replace fetch that superseded it has been merged with items.
C1_Witness ==
    \E a \in 1..Len(threads) : \E b \in (a + 1)..Len(threads) :
        /\ IsReplace(b) /\ InMerged(b) /\ ~InMerged(a)
        /\ threads[a].state = "finished"
        /\ items /= <<>>

\* C2 (one merge per tick, of the slot's fetch): a step merges at most one result,
\* only in the poll of App::update, and the result merged is the one of the worker
\* whose receiver is in the slot, which is the most recently scheduled fetch.
C2_MergeOnlyCurrentSlot ==
    [][merged' /= merged =>
          /\ pc = "poll_result" /\ pc' /= "poll_result"
          /\ status.kind = "Fetching"
          /\ status.rx = Len(threads)
          /\ merged' = Append(merged, status.rx)]_vars

\* C2 witness: two results have been merged, one after the other.
C2_Witness == Len(merged) = 2 /\ merged[1] < merged[2]

\* C3 (as claimed, at the states in which the session handles a key press, which
\* follow a render and a tick): the highlighted index is None or the index of a
\* loaded item.
C3_SelectedIndexInBounds ==
    pc = "event" => (IsSome(selected) => Unwrap(selected) < Len(items))

\* C4 (as claimed): Enter in Normal(List) returns Select(i) only for a loaded item,
\* so select_item_with never ends with the Invalid selection error.
C4_NoInvalidSelection == result.msg /= "Invalid selection"

\* C5 (as claimed): the cursor is at most the number of grapheme clusters of the
\* query.
C5_CursorBound == 0 <= search.cursor_pos /\ search.cursor_pos <= grapheme_count(search)

\* multi-code-point grapheme clusters: a letter with a combining accent, a flag
Clusters == {<<"a", "U+0301">>, <<"U+1F1E9", "U+1F1EA">>}

RECURSIVE insert_chars(_, _)
\* insert_char_at_cursor for each character of chars
insert_chars(s, chars) ==
    IF chars = <<>> THEN s
    ELSE insert_chars(insert_char_at_cursor(s, Head(chars)), Tail(chars))

\* C6 (as claimed): inserting the characters of one grapheme cluster and deleting
\* before the cursor once leaves query and cursor as they were.
C6_GraphemeRoundTrip ==
    \A cluster \in Clusters :
        LET after == delete_char_before_cursor(insert_chars(search, cluster))
        IN  after.query = search.query /\ after.cursor_pos = search.cursor_pos

\* what end-to-end scenario 2 says apart from the position of the highlight: only
\* one more fetch is scheduled, an Append for page 2; page 1 holds Page1Items
\* items and the merge of page 2 makes it Page1Items + Page2Items; once page 2
\* is requested no tick asks for a fetch again.
C7_OnePage2Fetch ==
    /\ Len(threads) <= 2
    /\ Len(threads) = 2 =>
          /\ threads[2].page = 2
          /\ threads[2].fetch_result.append_items
          /\ ~should_fetch
    /\ merged = <<1>> => Len(items) = Page1Items
    /\ merged = <<1, 2>> => Len(items) = Page1Items + Page2Items

\* the tick that finds page 1 loaded and nothing in flight takes its first step
C7_TickOnPage1 ==
    pc = "update" /\ pc' = "poll_result" /\ merged = <<1>> /\ Len(threads) = 1

\* C7 (as claimed): a tick with the highlight on the 3rd-from-last item of page 1
\* schedules the fetch of page 2, the only fetch after the first and an Append;
\* its response makes the list Page1Items + Page2Items items long and no later
\* tick schedules a fetch, the last item highlighted or not.
C7_Original ==
    /\ []C7_OnePage2Fetch
    /\ [][(C7_TickOnPage1 /\ selected = Some(Len(items) - 3)) => ScheduleStep]_vars

\* C8 (lookahead guard): a tick schedules a fetch only if, before it, the slot is
\* idle, has_next_page is true, the mode is Normal(List) and nothing is highlighted
\* or the highlight is within LOAD_THRESHOLD of the end of the items; the fetch is
\* an Append for current_page + 1.  A fetch scheduled outside a tick is a Replace.
C8_LookaheadGuard ==
    [][ScheduleStep =>
          LET new == threads'[Len(threads')]
          IN  IF pc = "update"
              THEN /\ status = Idle
                   /\ pagination.has_next_page
                   /\ mode = Normal("List")
                   /\ selected = None \/ Len(items) - Unwrap(selected) <= LOAD_THRESHOLD
                   /\ new.fetch_result.append_items
                   /\ new.page = pagination.current_page + 1
              ELSE ~new.fetch_result.append_items]_vars

\* C8 witness: page 1 has brought two items, the highlight was moved from the
\* first to the second, the last, and the tick has just scheduled the lookahead
\* fetch of page 2.
C8_Witness ==
    /\ pc = "poll_result"
    /\ Len(threads) = 2 /\ status = Fetching(2)
    /\ threads[2].fetch_result.append_items /\ threads[2].page = 2
    /\ Len(items) = 2 /\ selected = Some(1)

\* C9 (Replace resets pagination): the step that submits a search drops the
\* receiver in the slot, sets current_page to 0 and has_next_page to true and
\* schedules a fetch for page 1 into the slot; and as long as that fetch is the
\* latest and its result is not merged, current_page is 0 and has_next_page true.
C9_ReplaceResetsPagination ==
    /\ [][(ScheduleStep /\ pc /= "update") =>
             /\ pagination'.current_page = 0
             /\ pagination'.has_next_page
             /\ threads'[Len(threads')].page = 1
             /\ status' = Fetching(Len(threads'))
             /\ status.kind = "Fetching" => chan'[status.rx] = <<>>]_vars
    /\ [](\A b \in 1..Len(threads) :
             (b = Len(threads) /\ IsReplace(b) /\ ~InMerged(b)) =>
                 pagination.current_page = 0 /\ pagination.has_next_page)

\* C9 witness: a page was merged, then a search was submitted and is in flight.
C9_Witness ==
    /\ merged = <<1>> /\ Len(threads) = 2 /\ IsReplace(2)
    /\ status = Fetching(2)

\* C10 (initial load): the first tick schedules one fetch, an Append for page 1
\* with empty options, and no tick is over before it did; the merge of its
\* response with n >= 1 items makes the list these n items, in order, and
\* highlights index 0.
C10_InitialLoad ==
    /\ [][(pc = "update" /\ threads = <<>>) =>
             /\ Len(threads') = 1
             /\ threads'[1].page = 1
             /\ threads'[1].options = FetchOptions_new
             /\ threads'[1].fetch_result.append_items
             /\ status' = Fetching(1)]_vars
    /\ [](threads = <<>> => pc \in {"draw", "update"})
    /\ [][(MergeStep /\ status.rx = 1 /\ Head(chan[1]).value.items /= <<>>) =>
             /\ items' = response_items(1, Len(Head(chan[1]).value.items))
             /\ selected' = Some(0)]_vars

\* C10 witness: the first response, with an item, is merged and index 0 highlighted.
C10_Witness == merged = <<1>> /\ items /= <<>> /\ selected = Some(0) /\ pc = "event"

(***************************************************************************)
(* Search submission: the session is in the search bar with a query typed  *)
(* while the initial fetch is still in flight (one render and one tick     *)
(* have run; the worker of page 1 has not answered), and Enter is pressed. *)
(* The queries are whitespace-separated tokens.                            *)
(***************************************************************************)
\* the most tokens of a typed query
MaxTokens == 3

\* the tokens of the typed queries: free words, @key=value with repeated, empty
\* and reserved keys, an empty value, a value with "=", and "@" words without "="
Tokens ==
    {<<"b", "u", "g">>, <<"f", "i", "x">>, <<"@", "a", "=", "b">>, <<"@", "a", "=", "c">>, <<"@", "=">>,
     <<"@", "a">>, <<"@", "a", "=", "b", "=", "c">>,
     <<"@", "q", "u", "e", "r", "y", "=", "x">>}

\* whitespace between two tokens
Separators == {<<" ">>}

RECURSIVE TokenStrings(_)
\* the queries of n tokens, each separated from the next by a separator
TokenStrings(n) ==
    IF n = 0 THEN {<<>>}
    ELSE IF n = 1 THEN Tokens
    ELSE {t \o sep \o rest : t \in Tokens, sep \in Separators, rest \in TokenStrings(n - 1)}

\* the query of end-to-end scenario 3
BugAuthorAlice ==
    <<"b", "u", "g", " ", "@", "a", "u", "t", "h", "o", "r", "=", "a", "l", "i", "c", "e">>

\* the queries typed before Enter: token strings, also with leading and trailing
\* whitespace, and whitespace alone
SubmitQueries ==
    UNION {TokenStrings(n) : n \in 0..MaxTokens}
    \cup {<<" ">> \o q \o <<"U+00A0", " ">> \o q : q \in TokenStrings(1)}
    \cup {<<" ">>, BugAuthorAlice}

\* the state in which the first fetch is in flight and q has been typed
InitSubmit ==
    /\ mode = Normal("SearchBar")
    /\ status = Fetching(1)
    /\ options = FetchOptions_new
    /\ threads = <<[page |-> 1, options |-> FetchOptions_new,
                    fetch_result |-> with_append_items(with_page(FetchResult_new, 1), TRUE),
                    state |-> "running"]>>
    /\ chan = <<<<>>>>
    /\ items = <<>>
    /\ selected = None
    /\ pagination = [PaginationState_default EXCEPT !.per_page = MaxHeight]
    /\ search \in {insert_chars(SearchState_default, q) : q \in SubmitQueries}
    /\ pc = "event"
    /\ result = Running
    /\ merged = <<>>
    /\ config = Some(Config_default)
    /\ url = <<>>
    /\ remote = NotParsed
    /\ cli = Cli_default

EnterKey == [code |-> "Enter", char |-> "", ctrl |-> FALSE, alt |-> FALSE]

\* Enter pressed in Normal(SearchBar)
SubmitEnter ==
    /\ pc = "event"
    /\ mode = Normal("SearchBar")
    /\ handle_key_event_search_bar_widget(EnterKey)
    /\ UNCHANGED <<items, selected, merged>>
    /\ UNCHANGED cliVars

NextSubmit ==
    \/ Draw
    \/ UpdateFetch
    \/ UpdatePoll
    \/ NoKeyEvent
    \/ SubmitEnter
    \/ WorkerFinish

SpecSubmit == InitSubmit /\ [][NextSubmit]_vars

(***************************************************************************)
(* Properties of the parser and of the search submission                   *)
(***************************************************************************)
\* a word of the form @k=v
IsOptionToken(w) == w[1] = "@" /\ \E i \in 2..Len(w) : w[i] = "="
FirstEq(w) == CHOOSE i \in 2..Len(w) : w[i] = "=" /\ \A j \in 2..(i - 1) : w[j] /= "="
KeyOf(w) == SubSeq(w, 2, FirstEq(w) - 1)
ValueOf(w) == SubSeq(w, FirstEq(w) + 1, Len(w))
IsFreeWord(w) == ~IsOptionToken(w)

RECURSIVE JoinWords(_)
\* the words joined with single spaces
JoinWords(ws) ==
    IF ws = <<>> THEN <<>>
    ELSE IF Len(ws) = 1 THEN ws[1]
    ELSE ws[1] \o <<" ">> \o JoinWords(Tail(ws))

\* o holds, for each key of the option tokens in keys, the value of the last token
\* with that key
LastValueWins(ws, o, keys) ==
    \A i \in 1..Len(ws) :
        (/\ IsOptionToken(ws[i])
         /\ KeyOf(ws[i]) \in keys
         /\ \A j \in (i + 1)..Len(ws) :
                IsOptionToken(ws[j]) => KeyOf(ws[j]) /= KeyOf(ws[i]))
        => (KeyOf(ws[i]) \in DOMAIN o /\ o[KeyOf(ws[i])] = ValueOf(ws[i]))

OptionKeys(ws) == {KeyOf(ws[i]) : i \in {j \in 1..Len(ws) : IsOptionToken(ws[j])}}

\* this step is the Enter key press that submits the search
SubmitStep == pc = "event" /\ mode = Normal("SearchBar") /\ ScheduleStep

\* C11 (as claimed): the options parsed from the submitted query hold, for each
\* key k, the value of the last @k=v token, and "query" is the free words joined
\* with single spaces, absent when there is no free word; no other entry.
C11_Original ==
    [][SubmitStep =>
          LET ws == split_whitespace(search.query)
              free == SelectSeq(ws, IsFreeWord)
          IN  /\ LastValueWins(ws, options', OptionKeys(ws))
              /\ free /= <<>> => /\ QUERY_KEY \in DOMAIN options'
                                 /\ options'[QUERY_KEY] = JoinWords(free)
              /\ free = <<>> => QUERY_KEY \notin DOMAIN options'
              /\ DOMAIN options' \subseteq OptionKeys(ws) \cup {QUERY_KEY}]_vars

\* C11 (amended): as claimed for every key other than the reserved key "query";
\* the "query" entry is the free words joined with single spaces when there is a
\* free word, else the value of the last @query=v token, and absent when there is
\* neither.
C11_Amended ==
    [][SubmitStep =>
          LET ws == split_whitespace(search.query)
              free == SelectSeq(ws, IsFreeWord)
          IN  /\ LastValueWins(ws, options', OptionKeys(ws) \ {QUERY_KEY})
              /\ free /= <<>> => /\ QUERY_KEY \in DOMAIN options'
                                 /\ options'[QUERY_KEY] = JoinWords(free)
              /\ free = <<>> => /\ LastValueWins(ws, options', {QUERY_KEY})
                                /\ QUERY_KEY \in DOMAIN options' =>
                                       QUERY_KEY \in OptionKeys(ws)
              /\ DOMAIN options' \subseteq OptionKeys(ws) \cup {QUERY_KEY}]_vars

\* C11 witness: a query with a repeated key and a free word has been submitted:
\* the options hold the last value of the key and the free word.
C11_Witness ==
    /\ Len(threads) = 2
    /\ search.history = <<<<"@", "a", "=", "b">> \o <<" ">> \o <<"@", "a", "=", "c">>
                          \o <<" ">> \o <<"b", "u", "g">>>>
    /\ options = (<<"a">> :> <<"c">>) @@ (QUERY_KEY :> <<"b", "u", "g">>)

(***************************************************************************)
(* The history scenario: the user submits the searches "bug", "fix" and    *)
(* then "bb", "baa", "bab", ... (words of the letters a and b), each typed *)
(* character by character; among the first submissions they may submit    *)
(* nothing, "bug @author=alice", or one of the first queries again, and    *)
(* browse the history with Up and Down.  The key presses act in any order  *)
(* (a tick and a render never touch the SearchState).                      *)
(***************************************************************************)
\* the distinct queries of the scenario
MaxQueries == 101
\* the first submissions, which may repeat a query or be empty, and between which
\* the history is browsed
EarlySubmits == 3

RECURSIVE Binary(_)
\* n in binary, written with "a" for 0 and "b" for 1
Binary(n) ==
    IF n = 0 THEN <<>> ELSE Append(Binary(n \div 2), IF n % 2 = 1 THEN "b" ELSE "a")

\* the n-th distinct query
Target(n) ==
    IF n = 1 THEN <<"b", "u", "g">>
    ELSE IF n = 2 THEN <<"f", "i", "x">>
    ELSE Binary(n)

\* the characters of the queries of the scenario
HistoryChars ==
    {"a", "b", "f", "g", "i", "u", "x"}
    \cup {BugAuthorAlice[i] : i \in 1..Len(BugAuthorAlice)}

\* the number of distinct queries of Target submitted so far
DistinctSubmitted ==
    Cardinality({threads[i].options : i \in 1..Len(threads)}
                \ {FetchOptions_new, parse_fetch_options(BugAuthorAlice)})

\* the queries the user may be typing: the next distinct one and, early on, one
\* of the history or the query of scenario 3
TypedTargets ==
    {Target(n) : n \in {DistinctSubmitted + 1} \cap 1..MaxQueries}
    \cup (IF Len(threads) < EarlySubmits
          THEN {search.history[i] : i \in 1..Len(search.history)} \cup {BugAuthorAlice}
          ELSE {})

IsPrefix(p, t) == Len(p) <= Len(t) /\ SubSeq(t, 1, Len(p)) = p

CharKey(c) == [code |-> "Char", char |-> c, ctrl |-> FALSE, alt |-> FALSE]
UpKey == [code |-> "Up", char |-> "", ctrl |-> FALSE, alt |-> FALSE]
DownKey == [code |-> "Down", char |-> "", ctrl |-> FALSE, alt |-> FALSE]

\* a character typed in Normal(SearchBar)
HistoryType ==
    /\ result = Running
    /\ mode = Normal("SearchBar")
    /\ LET targets == TypedTargets
       IN  \E c \in HistoryChars :
              /\ \E t \in targets : IsPrefix(Append(search.query, c), t)
              /\ search' = search_bar_edit(CharKey(c))
    /\ UNCHANGED <<mode, fetcherVars, items, selected, pagination, pc, result, merged>>
    /\ UNCHANGED cliVars

\* a character typed in Normal(List)
HistoryTypeInList ==
    /\ result = Running
    /\ mode = Normal("List")
    /\ LET targets == TypedTargets
       IN  \E c \in HistoryChars :
              /\ \E t \in targets : IsPrefix(Append(search.query, c), t)
              /\ search' = insert_char_at_cursor(search, c)
    /\ mode' = Normal("SearchBar")
    /\ UNCHANGED <<fetcherVars, items, selected, pagination, pc, result, merged>>
    /\ UNCHANGED cliVars

\* Tab or BackTab in Normal(List), among the first submissions
HistoryTab ==
    /\ result = Running
    /\ mode = Normal("List")
    /\ Len(threads) <= EarlySubmits
    /\ mode' = Normal("SearchBar")
    /\ UNCHANGED <<fetcherVars, items, selected, pagination, search, pc, result, merged>>
    /\ UNCHANGED cliVars

\* Up or Down in Normal(SearchBar), among the first submissions
HistoryBrowse ==
    /\ result = Running
    /\ mode = Normal("SearchBar")
    /\ Len(threads) <= EarlySubmits
    /\ \E key \in {UpKey, DownKey} : search' = search_bar_edit(key)
    /\ UNCHANGED <<mode, fetcherVars, items, selected, pagination, pc, result, merged>>
    /\ UNCHANGED cliVars

\* Enter in Normal(SearchBar) with a whole query typed or, early on, with none
HistoryEnter ==
    /\ result = Running
    /\ mode = Normal("SearchBar")
    /\ \/ search.query \in TypedTargets
       \/ search.query = <<>> /\ Len(threads) < EarlySubmits
    /\ search' = clear(save_to_history(search))
    /\ mode' = Normal("List")
    /\ pagination' = PaginationState_reset(pagination)
    /\ spawn(reset_status, drop_receiver(status, chan), parse_fetch_options(search.query),
             1, with_append_items(with_page(FetchResult_new, 1), FALSE))
    /\ UNCHANGED <<items, selected, pc, result, merged>>
    /\ UNCHANGED cliVars

NextHistory ==
    \/ HistoryType
    \/ HistoryTypeInList
    \/ HistoryTab
    \/ HistoryBrowse
    \/ HistoryEnter

SpecHistory == Init /\ [][NextHistory]_vars

(***************************************************************************)
(* Properties of the search history                                        *)
(***************************************************************************)
\* the i-th submission of the session was the query q (no @ tokens here)
Submitted(i, q) ==
    /\ i <= Len(threads)
    /\ threads[i].options = IF q = <<>> THEN FetchOptions_new ELSE (QUERY_KEY :> q)

\* the options of end-to-end scenario 3: {"query": "bug", "author": "alice"}
BugAuthorAliceOptions ==
    (QUERY_KEY :> <<"b", "u", "g">>)
    @@ (<<"a", "u", "t", "h", "o", "r">> :> <<"a", "l", "i", "c", "e">>)

\* C12 (search submission): the Enter key press in Normal(SearchBar), the step of
\* the scenario that leaves the search bar, with query q, typed or recalled from
\* the history, makes q the most recent history entry, behind the other entries
\* in their order (the oldest is dropped beyond MAX_HISTORY_SIZE; an empty q is
\* not saved), empties the editor (query empty, cursor 0, not browsing), moves to
\* Normal(List) and schedules exactly one fetch, a Replace for page 1 with the
\* options parsed from q, into the slot.  For q = "bug @author=alice" the options
\* are {query: bug, author: alice}, and the history is <<q>> if it was empty.
C12_SearchSubmission ==
    [][(mode = Normal("SearchBar") /\ mode' /= mode) =>
          LET q == search.query
              new == threads'[Len(threads')]
              h == SelectSeq(search.history, LAMBDA e : e /= q) \o <<q>>
          IN  /\ search'.history = IF q = <<>> THEN search.history
                                   ELSE IF Len(h) > MAX_HISTORY_SIZE THEN Tail(h) ELSE h
              /\ search'.query = <<>>
              /\ search'.cursor_pos = 0
              /\ search'.history_index = None
              /\ mode' = Normal("List")
              /\ Len(threads') = Len(threads) + 1
              /\ new.page = 1
              /\ ~new.fetch_result.append_items
              /\ new.options = parse_fetch_options(q)
              /\ options' = new.options
              /\ status' = Fetching(Len(threads'))
              /\ q = BugAuthorAlice =>
                     /\ new.options = BugAuthorAliceOptions
                     /\ search.history = <<>> => search'.history = <<BugAuthorAlice>>]_vars

\* C12 witness: "bug" was submitted twice, the second time recalled with Up from
\* the history, where it stays the only entry; then "bug @author=alice" was
\* submitted: it is the most recent entry and its fetch is in the slot.
C12_Witness ==
    /\ mode = Normal("List")
    /\ search = [SearchState_default EXCEPT !.history = <<Target(1), BugAuthorAlice>>]
    /\ Len(threads) = 3 /\ status = Fetching(3)
    /\ Submitted(1, Target(1)) /\ Submitted(2, Target(1))
    /\ threads[3].options = BugAuthorAliceOptions
    /\ threads[3].page = 1 /\ IsReplace(3)

\* C13 (history dedup and cap): the history holds no empty string, no two equal
\* entries and at most 100 entries; a submission of a non-empty query q removes q
\* from the history if it is there, appends q as the most recent entry and, if
\* that makes more than 100 entries, drops the oldest; an empty submission leaves
\* the history as it is; after 101 distinct queries the history is the last 100.
C13_HistoryDedupCap ==
    /\ [](/\ Len(search.history) <= 100
          /\ \A i \in 1..Len(search.history) :
                /\ search.history[i] /= <<>>
                /\ \A j \in (i + 1)..Len(search.history) :
                      search.history[i] /= search.history[j])
    /\ [][Len(threads') > Len(threads) =>
             LET q == search.query
                 h == SelectSeq(search.history, LAMBDA e : e /= q) \o <<q>>
             IN  search'.history =
                     IF q = <<>> THEN search.history
                     ELSE IF Len(h) > 100 THEN Tail(h) ELSE h]_vars
    /\ []((/\ Len(threads) = 101
            /\ [i \in 1..101 |-> threads[i].options] = [i \in 1..101 |-> QUERY_KEY :> Target(i)])
             => search.history = [i \in 1..100 |-> Target(i + 1)])

\* C13 witness: "bug", "fix" and "bug" again were submitted, then 99 more distinct
\* queries: "fix", the oldest, is evicted and "bug" is now the oldest of 100.
C13_Witness ==
    /\ Len(threads) = 102
    /\ Submitted(1, Target(1)) /\ Submitted(2, Target(2)) /\ Submitted(3, Target(1))
    /\ search.history = [i \in 1..100 |-> IF i = 1 THEN Target(1) ELSE Target(i + 1)]

\* C14 (shell-style history navigation): in every state of the search bar, an Up
\* key press when not browsing loads the newest entry (none: nothing changes), a
\* further Up loads the next older entry and Up at the oldest changes nothing; a
\* Down key press while browsing loads the next newer entry and at the newest
\* leaves browsing with an empty query; a loaded entry has the cursor at its end.
\* From the empty, non-browsing editor with history <<"bug", "fix">>, Up, Up, Down,
\* Down show "fix", "bug", "fix", "".
C14_HistoryNavigation ==
    LET s == search
        n == Len(s.history)
        up == search_bar_edit(UpKey)
        down == search_bar_edit(DownKey)
        Loaded(t, i) == /\ t.history_index = Some(i)
                        /\ t.query = s.history[i + 1]
                        /\ t.cursor_pos = graphemes_count(t.query)
                        /\ t.history = s.history
    IN  /\ (s.history_index = None /\ n > 0) => Loaded(up, n - 1)
        /\ (s.history_index = None /\ n = 0) => up = s
        /\ (IsSome(s.history_index) /\ Unwrap(s.history_index) > 0) =>
               Loaded(up, Unwrap(s.history_index) - 1)
        /\ s.history_index = Some(0) => up = s
        /\ (IsSome(s.history_index) /\ Unwrap(s.history_index) < n - 1) =>
               Loaded(down, Unwrap(s.history_index) + 1)
        /\ (IsSome(s.history_index) /\ Unwrap(s.history_index) = n - 1) =>
               down = [s EXCEPT !.history_index = None, !.query = <<>>, !.cursor_pos = 0]
        /\ (s.history = <<Target(1), Target(2)>> /\ s.query = <<>> /\ s.history_index = None) =>
               LET s1 == navigate_history_up(s)
                   s2 == navigate_history_up(s1)
                   s3 == navigate_history_down(s2)
                   s4 == navigate_history_down(s3)
               IN  <<s1.query, s2.query, s3.query, s4.query>>
                       = <<Target(2), Target(1), Target(2), <<>>>>

\* C14 witness: with history <<"bug", "fix">>, Up was pressed twice and "bug", the
\* oldest entry, is in the search bar with the cursor at its end.
C14_Witness ==
    /\ mode = Normal("SearchBar")
    /\ search = [cursor_pos |-> 3, query |-> Target(1),
                 history |-> <<Target(1), Target(2)>>, history_index |-> Some(0)]

(***************************************************************************)
(* Properties of the event loop and of the key handlers                    *)
(***************************************************************************)
EscKey == [code |-> "Esc", char |-> "", ctrl |-> FALSE, alt |-> FALSE]
CtrlCKey == [code |-> "Char", char |-> "c", ctrl |-> TRUE, alt |-> FALSE]

\* this step is App::handle_key_event for a press of key in the current mode
KeyPress(key) ==
    /\ pc = "event"
    /\ IF mode = Normal("List")
       THEN /\ handle_key_event_list_widget(key)
            /\ UNCHANGED <<fetcherVars, items, pagination, merged>>
       ELSE IF mode = Normal("SearchBar")
       THEN /\ handle_key_event_search_bar_widget(key)
            /\ UNCHANGED <<items, selected, merged>>
       ELSE /\ handle_key_event_help_widget(key)
            /\ UNCHANGED <<fetcherVars, items, selected, pagination, search, merged>>
    /\ UNCHANGED cliVars

\* C15 (fetch failure is fatal): the poll of a tick that finds an error ends the
\* session with that error and leaves item list, highlight, pagination and the
\* merge log as they were, scheduling nothing; no step follows the end of the
\* session, so no fetch is scheduled again.
C15_FetchFailureFatal ==
    /\ [][(pc = "poll_result" /\ pc' /= pc /\ poll_ready /\ ~Head(chan[status.rx]).ok) =>
             /\ pc' = "done"
             /\ result'.kind = "Err" /\ result'.msg = "fetch failed"
             /\ items' = items /\ selected' = selected
             /\ pagination' = pagination
             /\ merged' = merged
             /\ Len(threads') = Len(threads)]_vars
    /\ [][result.kind = "Running" /\ pc /= "done"]_vars
    /\ [](result.kind /= "Running" <=> pc = "done")

\* C15 witness: a page was merged, a later fetch failed and the session is over
\* with the error, the merged items still in the list.
C15_Witness ==
    /\ pc = "done" /\ result.kind = "Err" /\ result.msg = "fetch failed"
    /\ merged = <<1>> /\ items /= <<>> /\ Len(threads) = 2

\* C16 (as claimed): in Help(f) a press of any key other than Ctrl+C closes the
\* overlay: no such key press leaves a mode other than Normal(f).
C16_AnyKeyClosesHelp ==
    (pc = "event" /\ mode.kind = "Help") =>
        \A key \in Keys \ {CtrlCKey} :
            ~ENABLED (KeyPress(key) /\ mode' /= Normal(mode.focus))

\* C17 (Ctrl+C quits everywhere): in each of the four modes the press of Ctrl+C is
\* handled, and it ends the session with the error Selection aborted, whatever the
\* query, the highlight and the fetch slot are.
C17_CtrlCQuits ==
    /\ [][KeyPress(CtrlCKey) =>
             /\ pc' = "done"
             /\ result'.kind = "Err" /\ result'.msg = "Selection aborted"]_vars
    /\ [](pc = "event" => ENABLED KeyPress(CtrlCKey))

\* C17 witness: the session was aborted from the help overlay of the search bar
\* with a fetch in flight (in Help only Ctrl+C quits).
C17_Witness ==
    /\ result.kind = "Err" /\ result.msg = "Selection aborted"
    /\ mode = Help("SearchBar") /\ status.kind = "Fetching"

\* C18 (Esc in the search bar): with a query, the press of Esc empties the editor
\* (query empty, cursor 0, not browsing), stays in Normal(SearchBar) and the loop
\* goes on; with no query it ends the session with Selection aborted.
C18_EscInSearchBar ==
    [][(mode = Normal("SearchBar") /\ KeyPress(EscKey)) =>
          IF search.query /= <<>>
          THEN /\ search'.query = <<>> /\ search'.cursor_pos = 0
               /\ search'.history_index = None
               /\ search'.history = search.history
               /\ mode' = Normal("SearchBar")
               /\ pc' = "draw" /\ result'.kind = "Running"
          ELSE /\ pc' = "done"
               /\ result'.kind = "Err" /\ result'.msg = "Selection aborted"
               /\ search' = search]_vars

\* C18 witness: the session was aborted in the search bar, the query empty, after
\* a search had been submitted.
C18_Witness ==
    /\ result.kind = "Err" /\ result.msg = "Selection aborted"
    /\ mode = Normal("SearchBar") /\ search.query = <<>> /\ search.history /= <<>>

\* C19 (only presses have an effect): a key event of kind Repeat or Release, in
\* any mode, returns no action (the loop goes on) and changes neither mode, editor,
\* item list, highlight, pagination nor the fetch slot and its threads.
C19_OnlyPressesAct ==
    [][KeyNotPress =>
          /\ pc' = "draw" /\ result' = result
          /\ mode' = mode /\ search' = search
          /\ items' = items /\ selected' = selected
          /\ pagination' = pagination
          /\ <<status, options, threads, chan>>' = <<status, options, threads, chan>>]_vars

\* C19 witness: an event was ignored in the help overlay while a fetch is in flight.
C19_Witness == pc = "draw" /\ mode.kind = "Help" /\ status.kind = "Fetching"

\* this step inserts one character into the query and is no load of a history entry
InsertStep ==
    /\ Len(search'.query) = Len(search.query) + 1
    /\ ~(IsSome(search'.history_index) /\ search'.history_index /= search.history_index)

\* C20 (as claimed): after a character is inserted into the editor, typed in
\* Normal(SearchBar) or in Normal(List), the editor is not browsing the history.
C20_InsertExitsBrowsing ==
    [][InsertStep => search'.history_index = None]_vars

(***************************************************************************)
(* The modes: the whole event loop with the key presses that change the    *)
(* mode, type text or move in the editor, and queries of several           *)
(* characters, so that a '?' meets a query that is not empty.              *)
(***************************************************************************)
\* the longest query typed while the modes are explored
MaxQuery == 2

\* the press of a key that is no character, without modifiers
Key(code) == [code |-> code, char |-> "", ctrl |-> FALSE, alt |-> FALSE]

\* the keys pressed: those that change the mode, type or move the cursor and,
\* in the help overlay, also Enter, Up and Ctrl+C
ModeKeys ==
    {CharKey("?"), CharKey("a"), Key("Tab"), Key("BackTab"), EscKey, Key("Left")}
    \cup (IF mode.kind = "Help" THEN {EnterKey, UpKey, CtrlCKey} ELSE {})

\* App::handle_key_event for the press of one of these keys
ModesKey ==
    \E key \in ModeKeys :
        /\ inserts_char(key) => Len(search.query) < MaxQuery
        /\ KeyPress(key)

NextModes ==
    \/ Draw
    \/ UpdateFetch
    \/ UpdatePoll
    \/ NoKeyEvent
    \/ ModesKey
    \/ WorkerFinish

SpecModes == Init /\ [][NextModes]_vars

(***************************************************************************)
(* Properties of the modes                                                 *)
(***************************************************************************)
\* the query q with the character c put in after its first n characters
InsertedAt(q, n, c) == SubSeq(q, 1, n) \o <<c>> \o SubSeq(q, n + 1, Len(q))

\* this step leaves editor, item list, highlight, pagination and fetch slot alone
\* and the loop goes on
OnlyModeChanges ==
    /\ search' = search
    /\ items' = items /\ selected' = selected
    /\ pagination' = pagination
    /\ <<status, options, threads, chan>>' = <<status, options, threads, chan>>
    /\ merged' = merged
    /\ pc' = "draw" /\ result' = result

\* C21 (help overlay entry and exit): the press of '?' in Normal(List) is always
\* handled and opens Help(List); in Normal(SearchBar) it opens Help(SearchBar) if
\* the query is empty and otherwise puts '?' into the query at the cursor and
\* stays; a step that enters Help is such a press and changes nothing but the
\* mode; a step that leaves Help goes to Normal with the focus Help holds, which
\* is the focus it was entered from.
C21_HelpEntryExit ==
    /\ [][(KeyPress(CharKey("?")) /\ mode = Normal("List")) =>
             mode' = Help("List") /\ OnlyModeChanges]_vars
    /\ [](pc = "event" /\ mode = Normal("List") => ENABLED KeyPress(CharKey("?")))
    /\ [][(KeyPress(CharKey("?")) /\ mode = Normal("SearchBar")) =>
             IF search.query = <<>>
             THEN mode' = Help("SearchBar") /\ OnlyModeChanges
             ELSE /\ mode' = mode
                  /\ search'.query = InsertedAt(search.query, search.cursor_pos, "?")
                  /\ search'.cursor_pos = search.cursor_pos + 1]_vars
    /\ [][(mode.kind = "Normal" /\ mode'.kind = "Help") =>
             /\ KeyPress(CharKey("?"))
             /\ mode'.focus = mode.focus
             /\ OnlyModeChanges]_vars
    /\ [][(mode.kind = "Help" /\ mode' /= mode) => mode' = Normal(mode.focus)]_vars

\* C21 witness: '?' was typed into a query that was not empty (a, Left, ?), and
\* with that query Help was opened from the list, while a fetch is in flight.
C21_Witness ==
    /\ mode = Help("List")
    /\ search.query = <<"?", "a">> /\ search.cursor_pos = 1
    /\ status.kind = "Fetching"

\* C22 (Tab and Shift+Tab toggle the focus): in Normal(List) and Normal(SearchBar)
\* the press of Tab and of BackTab is always handled, moves the focus to the other
\* widget and leaves query, cursor, history, history cursor, item list, highlight,
\* pagination and the fetch slot with its threads as they were.
C22_TabTogglesFocus ==
    /\ [][\A key \in {Key("Tab"), Key("BackTab")} :
             (KeyPress(key) /\ mode.kind = "Normal") =>
                 /\ mode'.kind = "Normal"
                 /\ mode'.focus = (IF mode.focus = "List" THEN "SearchBar" ELSE "List")
                 /\ OnlyModeChanges]_vars
    /\ [](pc = "event" /\ mode.kind = "Normal" =>
             ENABLED KeyPress(Key("Tab")) /\ ENABLED KeyPress(Key("BackTab")))

\* C22 witness: the focus is on the list while the editor browses its history
\* (a was submitted, Up loaded it, Tab left the search bar), the cursor behind the
\* query, and a fetch is in flight.
C22_Witness ==
    /\ mode = Normal("List")
    /\ IsSome(search.history_index)
    /\ search.query /= <<>> /\ search.cursor_pos = Len(search.query)
    /\ status.kind = "Fetching"

(***************************************************************************)
(* The remote URL: git::get_remote_data on the URLs a remote may have.     *)
(***************************************************************************)
\* the texts a URL is put together from: what stands before the host, the host,
\* the port with its colon, the separator before the path, and the path
UrlPrefixes ==
    {HTTPS_PREFIX, SSH_PREFIX, GIT_PREFIX, <<>>,
     <<"h", "t", "t", "p", ":", "/", "/">>, <<"s", "s", "h", ":", "/", "/">>,
     <<"H", "T", "T", "P", "S", ":", "/", "/">>}
UrlHosts == {<<"h">>, <<>>, <<"u", "@", "h">>}
UrlPorts ==
    {<<>>, <<":">>, <<":", "8", "0">>, <<":", "0", "8", "0">>, <<":", "+", "8">>,
     <<":", "6", "5", "5", "3", "5">>, <<":", "6", "5", "5", "3", "6">>, <<":", "x">>,
     <<":", "1", ":", "2">>}
UrlSeparators == {<<"/">>, <<":">>, <<>>}
UrlPaths ==
    {<<>>, <<"o", "/", "r">>, <<"o", "/", "r">> \o DOT_GIT, <<"r">> \o DOT_GIT \o DOT_GIT,
     DOT_GIT, <<"o", ":", "r">>, <<"r", ".", "g", "i">>}

Urls ==
    {p \o h \o n \o sep \o path :
        p \in UrlPrefixes, h \in UrlHosts, n \in UrlPorts, sep \in UrlSeparators,
        path \in UrlPaths}

\* the blanks a URL may be stored with, before it and behind it
UrlPads == {<<>>, <<" ">>, <<"\t">>, <<"U+00A0">>}

\* what `git remote get-url` writes when the remote has one of urls, stored
\* with pads around it: the URL as it is stored, and a newline
Printed(urls, pads) ==
    {lead \o u \o trail \o <<"\n">> : lead \in pads, u \in urls, trail \in pads}

\* git::get_remote_data when git writes one of stdouts: the git command fails
\* (no such remote, no repository), or what it wrote is trimmed and parsed
get_remote_data(stdouts) ==
    \E stdout \in stdouts \cup {None} :
        IF stdout = None
        THEN url' = url /\ remote' = GitFailed
        ELSE LET remote_url == get_remote_url(stdout)
             IN  url' = remote_url /\ remote' = Parsed(parse_remote_url(remote_url))

\* the first call of git::get_remote_data
GetRemoteData ==
    /\ ~remote.parsed
    /\ get_remote_data(Printed(Urls, UrlPads))
    /\ UNCHANGED <<mode, status, options, threads, chan, items, selected, pagination,
                   search, pc, result, merged, config, cli>>

NextRemote == GetRemoteData

SpecRemote == Init /\ [][NextRemote]_vars

(***************************************************************************)
(* The configuration: `config set` and `config unset` load the file, find   *)
(* the remote of the repository and store the file, in three steps with no *)
(* lock on the file, while `config edit` may have it open in the editor;   *)
(* the lookups are made with the remote of the repository, if it has one.  *)
(***************************************************************************)
\* the most parts (command levels and the flag) of the path of a setting
MaxParts == 2
\* the most parts of a path that is looked up
MaxLookupParts == 4
\* the most settings the configuration holds after a `config set` that adds one
MaxEntries == 2

ConfigCommands == {<<"p", "r">>, <<"c">>}
ConfigFlags == {<<"e">>}
ConfigValues == {<<"x">>, <<"y">>}

RECURSIVE CommandPaths(_)
\* the command paths of up to n levels, as sequences of command names
CommandPaths(n) ==
    IF n = 0 THEN {<<>>}
    ELSE {<<>>} \cup {<<c>> \o cp : c \in ConfigCommands, cp \in CommandPaths(n - 1)}

\* [<COMMAND_PATH>/]<FLAG>: the paths of the settings
ConfigPaths ==
    {join(cp \o <<flag>>, <<"/">>) : cp \in CommandPaths(MaxParts - 1), flag \in ConfigFlags}

\* the remote of the first of the URLs below
ConfigRemote == GitRemoteData(<<"h">>, <<"o", "/", "r">>, None)

\* the URLs the remote of the repository may have: a host without a port, the
\* same host on a port, and a URL that is not recognised (no remote context)
ConfigUrls ==
    {HTTPS_PREFIX \o <<"h", "/", "o", "/", "r">> \o DOT_GIT,
     SSH_PREFIX \o <<"h", ":", "8", "0", "/", "o", "/", "r">>,
     <<"h", "/", "o", "/", "r">>}

\* the number of settings in all scopes
entries(cfg) ==
    Cardinality(DOMAIN cfg.global)
    + Cardinality({<<k, q>> \in (DOMAIN cfg.host) \X ConfigPaths : q \in DOMAIN cfg.host[k]})
    + Cardinality({<<k, q>> \in (DOMAIN cfg.remote) \X ConfigPaths :
                     q \in DOMAIN cfg.remote[k]})

\* the URL of the remote of the repository the commands run in: one of
\* ConfigUrls, the same at every call of git once a call has returned it
RepositoryUrls == IF url = <<>> THEN ConfigUrls ELSE {url}

\* what git writes in that repository: the URL, stored without blanks
RepositoryPrinted == Printed(RepositoryUrls, {<<>>})

\* what the user may leave in the editor of `config edit`, as the Config the
\* text loads as: nothing at all, a host table without settings, a host table
\* for the host on its port, more settings than MaxEntries, in all three scopes,
\* and (None) a text that does not load
EditedFiles ==
    {Some(Config_default),
     Some([Config_default EXCEPT !.host = (<<"h">> :> <<>>)]),
     Some([Config_default EXCEPT !.host = (<<"h", ":", "8", "0">> :> (<<"e">> :> <<"x">>))]),
     Some([global |-> (<<"e">> :> <<"x">>) @@ (<<"c", "/", "e">> :> <<"y">>),
           host |-> (<<"h">> :> (<<"e">> :> <<"y">>)),
           remote |-> (<<"h", "/", "o", "/", "r">> :> (<<"p", "r", "/", "e">> :> <<"x">>))]),
     None}

\* the command of pc has returned with outcome: "ok" or "err"
returned(outcome) == [Cli_default EXCEPT !.pc = outcome, !.edit = cli.edit]

\* config_set and config_unset, which differ in their last step only; their
\* first step: Config::load_from_disk()?
ConfigLoad ==
    /\ cli.pc \in {"idle", "ok", "err"}
    /\ \E scope \in {"Global", "Host", "Remote"} :
          cli' = IF IsSome(config)
                 THEN [cli EXCEPT !.pc = "loaded", !.scope = scope,
                                  !.config = Unwrap(config)]
                 ELSE returned("err")
    /\ UNCHANGED <<mode, status, options, threads, chan, items, selected, pagination,
                   search, pc, result, merged, config, url, remote>>

\* config_set and config_unset, second step: get_remote_for_scope(scope, remote)?,
\* which runs git for the host and the remote scope, and ConfigSource::new
ConfigGetSource ==
    /\ cli.pc = "loaded"
    /\ IF cli.scope = "Global"
       THEN /\ cli' = [cli EXCEPT !.pc = "sourced", !.source = ConfigSource("Global", None)]
            /\ UNCHANGED <<url, remote>>
       ELSE /\ get_remote_data(RepositoryPrinted)
            /\ cli' = IF IsSome(remote'.data)
                      THEN [cli EXCEPT !.pc = "sourced",
                                       !.source = ConfigSource(cli.scope, Unwrap(remote'.data))]
                      ELSE returned("err")
    /\ UNCHANGED <<mode, status, options, threads, chan, items, selected, pagination,
                   search, pc, result, merged, config>>

\* config_set, last step: Config::set_value and save_to_disk()?, which writes
\* over the file whatever it holds by now, or fails and leaves it; the path and
\* the value of the call, which no earlier step reads, are drawn here
ConfigSet ==
    /\ cli.pc = "sourced"
    /\ \E path \in ConfigPaths, value \in ConfigValues, saved \in BOOLEAN :
          LET cfg == set_value(cli.config, path, value, cli.source)
          IN  /\ entries(cfg) <= Max(MaxEntries, entries(cli.config))
              /\ config' = IF saved THEN save_to_disk(cfg) ELSE config
              /\ cli' = returned(IF saved THEN "ok" ELSE "err")
    /\ UNCHANGED <<mode, status, options, threads, chan, items, selected, pagination,
                   search, pc, result, merged, url, remote>>

\* config_unset, last step: Config::unset_value and, if it removed a setting,
\* save_to_disk()?, which writes or fails as in config_set; if it removed none
\* the command stores nothing and returns Ok
ConfigUnset ==
    /\ cli.pc = "sourced"
    /\ \E path \in ConfigPaths, saved \in BOOLEAN :
          LET unset == unset_value(cli.config, path, cli.source)
          IN  IF unset.was_removed
              THEN /\ config' = IF saved THEN save_to_disk(unset.config) ELSE config
                   /\ cli' = returned(IF saved THEN "ok" ELSE "err")
              ELSE /\ config' = config
                   /\ cli' = returned("ok")
    /\ UNCHANGED <<mode, status, options, threads, chan, items, selected, pagination,
                   search, pc, result, merged, url, remote>>

\* config_edit, up to the editor: Config::load_from_disk()?, then the editor
\* opens on the text of the file
ConfigEditOpen ==
    /\ cli.edit \in {"closed", "ok", "err"}
    /\ cli' = [cli EXCEPT !.edit = IF IsSome(config) THEN "open" ELSE "err"]
    /\ UNCHANGED <<mode, status, options, threads, chan, items, selected, pagination,
                   search, pc, result, merged, config, url, remote>>

\* config_edit, from the editor on: the editor fails, or returns no change, or
\* returns a text, which fs::write puts over the file whatever it holds by now
\* (or fails to) and Config::load_from_disk()? then checks
ConfigEditClose ==
    /\ cli.edit = "open"
    /\ \E edited_content \in {Some(file) : file \in EditedFiles} \cup {None},
          failed \in BOOLEAN :
          IF failed
          THEN config' = config /\ cli' = [cli EXCEPT !.edit = "err"]
          ELSE IF edited_content = None
          THEN config' = config /\ cli' = [cli EXCEPT !.edit = "ok"]
          ELSE /\ config' = Unwrap(edited_content)
               /\ cli' = [cli EXCEPT !.edit = IF IsSome(config') THEN "ok" ELSE "err"]
    /\ UNCHANGED <<mode, status, options, threads, chan, items, selected, pagination,
                   search, pc, result, merged, url, remote>>

\* git::get_remote_data(remote).ok() of a lookup, in the repository
ConfigGetRemote ==
    /\ get_remote_data(RepositoryPrinted)
    /\ UNCHANGED <<mode, status, options, threads, chan, items, selected, pagination,
                   search, pc, result, merged, config, cli>>

NextConfig ==
    \/ ConfigLoad
    \/ ConfigGetSource
    \/ ConfigSet
    \/ ConfigUnset
    \/ ConfigEditOpen
    \/ ConfigEditClose
    \/ ConfigGetRemote

SpecConfig == Init /\ [][NextConfig]_vars

(***************************************************************************)
(* Properties of the configuration lookup                                  *)
(***************************************************************************)
\* the variants of the path with command path cp and flag, most specific first:
\* the j-th keeps the first Len(cp) + 1 - j levels of cp
Variants(cp, flag) ==
    [j \in 1..(Len(cp) + 1) |-> join(SubSeq(cp, 1, Len(cp) + 1 - j) \o <<flag>>, <<"/">>)]

\* the variants of the paths that are looked up
LookupVariants ==
    {Variants(cp, flag) : cp \in CommandPaths(MaxLookupParts - 1), flag \in ConfigFlags}

\* the value map holds for the first of the variants vs it has, if it has one
FirstSet(map, vs) ==
    IF \E j \in 1..Len(vs) : vs[j] \in DOMAIN map
    THEN Some(map[vs[CHOOSE j \in 1..Len(vs) :
                       vs[j] \in DOMAIN map /\ \A i \in 1..(j - 1) : vs[i] \notin DOMAIN map]])
    ELSE None

\* the Config the file holds, when it loads
Stored == Unwrap(config)

\* the table of m made for the remote r under key(r): none without a remote
SettingsFor(m, r, key(_)) ==
    IF IsSome(r) /\ key(Unwrap(r)) \in DOMAIN m THEN m[key(Unwrap(r))] ELSE <<>>

\* the settings of the host and of the remote scope that apply to the repository:
\* those made for <host>[:<port>] and for <host>[:<port>]/<path> of its remote,
\* none when it has no remote that is recognised
HostSettings == SettingsFor(Stored.host, remote.data, format_host_key)
RemoteSettings == SettingsFor(Stored.remote, remote.data, format_remote_key)

PR_CREATE_EDITOR == <<"p", "r", "/", "c", "/", "e">>
PR_EDITOR == <<"p", "r", "/", "e">>
EDITOR == <<"e">>

\* C23 (scope precedence): with the remote of the repository as context, the
\* effective value of a path is the one the remote scope holds for the first
\* variant of the path set there, if any variant is set there, else the one of the
\* host scope, else the one of the global scope, else there is none; a remote
\* that is not recognised gives no context, and then only the global scope counts.
C23_ScopePrecedence ==
    (remote.parsed /\ IsSome(config)) =>
        \A vs \in LookupVariants :
            LET got == get_value_effective(Stored, vs[1], remote.data)
                r == FirstSet(RemoteSettings, vs)
                h == FirstSet(HostSettings, vs)
                g == FirstSet(Stored.global, vs)
            IN  /\ got = (IF IsSome(r) THEN Some(<<Unwrap(r), "Remote">>)
                          ELSE IF IsSome(h) THEN Some(<<Unwrap(h), "Host">>)
                          ELSE IF IsSome(g) THEN Some(<<Unwrap(g), "Global">>)
                          ELSE None)
                /\ remote.data = None =>
                       got = (IF IsSome(g) THEN Some(<<Unwrap(g), "Global">>) ELSE None)

\* C23 witness: the remote scope holds editor, the global scope the more specific
\* pr/editor, and the lookup of pr/editor in the repository gives the value of
\* the remote scope.
C23_Witness ==
    /\ IsSome(config)
    /\ remote.data = Some(ConfigRemote)
    /\ RemoteSettings = (EDITOR :> <<"x">>)
    /\ Stored.global = (PR_EDITOR :> <<"y">>)
    /\ get_value_effective(Stored, PR_EDITOR, remote.data) = Some(<<<<"x">>, "Remote">>)

\* C24 (path hierarchy): the variants of a path c1/.../cn/flag are, in this order,
\* the path, the paths with n-1, ..., 1 leading command levels before the flag,
\* and the flag (a path without a command part has itself alone); the lookup in
\* one scope gives the value of the first variant set in that scope, or nothing.
C24_PathHierarchy ==
    /\ get_path_variants(PR_CREATE_EDITOR) = <<PR_CREATE_EDITOR, PR_EDITOR, EDITOR>>
    /\ \A vs \in LookupVariants :
          /\ get_path_variants(vs[1]) = vs
          /\ Len(vs) = 1 => get_path_variants(vs[1]) = <<vs[1]>>
          /\ IsSome(config) =>
                 /\ get_value_from_scope(Stored, vs[1], ConfigSource("Global", None))
                        = FirstSet(Stored.global, vs)
                 /\ IsSome(remote.data) =>
                        LET r == Unwrap(remote.data)
                        IN  /\ get_value_from_scope(Stored, vs[1], ConfigSource("Host", r))
                                   = FirstSet(HostSettings, vs)
                            /\ get_value_from_scope(Stored, vs[1], ConfigSource("Remote", r))
                                   = FirstSet(RemoteSettings, vs)

\* C24 witness: the global scope holds pr/editor and editor; the lookup of
\* pr/create/editor gives the value of pr/editor, that of create/editor the
\* value of editor.
C24_Witness ==
    /\ IsSome(config)
    /\ Stored.global = (PR_EDITOR :> <<"x">>) @@ (EDITOR :> <<"y">>)
    /\ get_value_from_scope(Stored, PR_CREATE_EDITOR, ConfigSource("Global", None))
           = Some(<<"x">>)
    /\ get_value_from_scope(Stored, <<"c", "/", "e">>, ConfigSource("Global", None))
           = Some(<<"y">>)

(***************************************************************************)
(* Properties of the remote URL                                            *)
(***************************************************************************)
StartsWith(s, p) == Len(s) >= Len(p) /\ \A i \in 1..Len(p) : s[i] = p[i]
EndsWith(s, p) == Len(s) >= Len(p) /\ \A i \in 1..Len(p) : s[Len(s) - Len(p) + i] = p[i]
Positions(s, c) == {i \in 1..Len(s) : s[i] = c}
First(S) == CHOOSE i \in S : \A j \in S : i <= j
Latest(S) == CHOOSE i \in S : \A j \in S : j <= i
IsDigit(c) == \E d \in 1..10 : DIGITS[d] = c

RECURSIVE Decimal(_)
\* the number the decimal digits ds denote
Decimal(ds) ==
    IF ds = <<>> THEN 0
    ELSE 10 * Decimal(SubSeq(ds, 1, Len(ds) - 1)) + to_digit(ds[Len(ds)])

\* is ps the text of a 16-bit number, as u16::from_str reads one: decimal digits,
\* at least one, after an optional '+', with a value of at most 65535
IsPort(ps) ==
    LET ds == IF ps /= <<>> /\ Head(ps) = "+" THEN Tail(ps) ELSE ps
    IN  /\ ds /= <<>>
        /\ \A i \in 1..Len(ds) : IsDigit(ds[i])
        /\ Decimal(ds) <= 65535
PortOf(ps) == Decimal(IF Head(ps) = "+" THEN Tail(ps) ELSE ps)

\* path without one trailing .git
WithoutDotGit(path) ==
    IF EndsWith(path, DOT_GIT) THEN SubSeq(path, 1, Len(path) - 4) ELSE path

\* what the claim expects of <host>[:<port>]/<path>: the host ends at the last
\* colon before the first slash, if there is one
ExpectedHostPortPath(rest) ==
    IF Positions(rest, "/") = {} THEN None
    ELSE LET slash == First(Positions(rest, "/"))
             authority == SubSeq(rest, 1, slash - 1)
             path == SubSeq(rest, slash + 1, Len(rest))
             colons == Positions(authority, ":")
         IN  IF colons = {}
             THEN Some([host |-> authority, path |-> WithoutDotGit(path), port |-> None])
             ELSE LET ps == SubSeq(authority, Latest(colons) + 1, Len(authority))
                  IN  IF IsPort(ps)
                      THEN Some([host |-> SubSeq(authority, 1, Latest(colons) - 1),
                                 path |-> WithoutDotGit(path),
                                 port |-> Some(PortOf(ps))])
                      ELSE None

\* what the claim expects of <host>:<path> after git@
ExpectedGitForm(rest) ==
    IF Positions(rest, ":") = {} THEN None
    ELSE LET colon == First(Positions(rest, ":"))
         IN  Some([host |-> SubSeq(rest, 1, colon - 1),
                   path |-> WithoutDotGit(SubSeq(rest, colon + 1, Len(rest))),
                   port |-> None])

\* C25 (remote URL): a URL that starts with https:// or with ssh://git@ and has a
\* slash after that gives the host, the port after the last colon of the host
\* part (None without a colon) and the path after the first slash without one
\* trailing .git; a URL that starts with git@ and has a colon after that gives
\* the host before the first colon, no port, and the path after it without one
\* trailing .git; every other URL gives None: one with another prefix, one
\* without the separator, one whose port is not the text of a 16-bit number.
C25_ParseRemoteUrl ==
    (remote.parsed /\ remote.error /= "git") =>
        remote.data =
            (IF StartsWith(url, HTTPS_PREFIX)
             THEN ExpectedHostPortPath(SubSeq(url, 9, Len(url)))
             ELSE IF StartsWith(url, SSH_PREFIX)
             THEN ExpectedHostPortPath(SubSeq(url, 11, Len(url)))
             ELSE IF StartsWith(url, GIT_PREFIX)
             THEN ExpectedGitForm(SubSeq(url, 5, Len(url)))
             ELSE None)

\* C25 witness: ssh://git@h:65535/o/r.git was parsed to host h, port 65535 and
\* path o/r.
C25_Witness ==
    /\ remote.parsed /\ remote.error = ""
    /\ url = SSH_PREFIX \o <<"h", ":", "6", "5", "5", "3", "5", "/", "o", "/", "r">> \o DOT_GIT
    /\ remote.data = Some([host |-> <<"h">>, path |-> <<"o", "/", "r">>, port |-> Some(65535)])

(***************************************************************************)
(* Properties of the word operations of the editor                         *)
(***************************************************************************)
\* the position reached from p by skipping to the right the characters that are
\* whitespace (ws = TRUE) or are not (ws = FALSE)
SkipRight(q, p, ws) ==
    CHOOSE i \in p..Len(q) :
        /\ \A j \in (p + 1)..i : is_whitespace(q[j]) = ws
        /\ i = Len(q) \/ is_whitespace(q[i + 1]) /= ws

\* the same to the left
SkipLeft(q, p, ws) ==
    CHOOSE i \in 0..p :
        /\ \A j \in (i + 1)..p : is_whitespace(q[j]) = ws
        /\ i = 0 \/ is_whitespace(q[i]) /= ws

\* over whitespace, then over the word: to the end of the word on the right, to
\* the start of the word on the left
WordRight(q, p) == SkipRight(q, SkipRight(q, p, TRUE), FALSE)
WordLeft(q, p) == SkipLeft(q, SkipLeft(q, p, TRUE), FALSE)

\* an editor in which a cursor position is a count of characters: each character
\* of the query is a grapheme cluster of its own, the cursor is within the query
PlainEditor(chars) ==
    /\ result = Running
    /\ \A i \in 1..Len(search.query) : search.query[i] \in chars
    /\ search.cursor_pos <= Len(search.query)

\* C26 (as claimed): in a query of letters and spaces, word-right moves the cursor
\* over the whitespace at the cursor and then over the word that follows, to the
\* end of that word; word-left moves it over the whitespace before the cursor and
\* then over the word before that, to the start of that word; both stop at the
\* edge of the query, and neither changes the query.
C26_WordMovement ==
    PlainEditor({"a", " "}) =>
        /\ move_cursor_right_word(search) =
               [search EXCEPT !.cursor_pos = WordRight(search.query, search.cursor_pos)]
        /\ move_cursor_left_word(search) =
               [search EXCEPT !.cursor_pos = WordLeft(search.query, search.cursor_pos)]

\* C27 (as claimed): in a query of letters, spaces and no-break spaces,
\* delete_word_before removes the whitespace before the cursor and the word
\* before that, nothing else, and leaves the cursor where the removed text
\* started; delete_word_after removes the whitespace after the cursor and the
\* word after that, nothing else, and leaves the cursor; at the start of the
\* query the former, at its end the latter, changes nothing.
C27_WordDeletion ==
    PlainEditor({"a", " ", "U+00A0"}) =>
        LET q == search.query
            p == search.cursor_pos
        IN  /\ ~delete_word_before_cursor_panics(search)
            /\ delete_word_before_cursor(search) =
                   [search EXCEPT
                       !.query = SubSeq(q, 1, WordLeft(q, p)) \o SubSeq(q, p + 1, Len(q)),
                       !.cursor_pos = WordLeft(q, p)]
            /\ delete_word_after_cursor(search) =
                   [search EXCEPT
                       !.query = SubSeq(q, 1, p) \o SubSeq(q, WordRight(q, p) + 1, Len(q))]
            /\ p = 0 => delete_word_before_cursor(search) = search
            /\ p = Len(q) => delete_word_after_cursor(search) = search

(***************************************************************************)
(* Properties of the merge and of the selection                            *)
(***************************************************************************)
\* the highlight the merge of response r is described to leave: Append keeps
\* it, Replace sets index 0 on a non-empty response and None on an empty one;
\* the tick then selects the first item when nothing is selected yet
DescribedHighlight(r) ==
    LET sel == IF r.append_items THEN selected
               ELSE IF r.items = <<>> THEN None ELSE Some(0)
    IN  IF sel = None /\ items' /= <<>> THEN Some(0) ELSE sel

\* C28 (as claimed): the step that merges a successful result leaves, for an
\* Append result, the loaded items as an unchanged prefix followed by the
\* items of the response and the highlight as it was (the first item when
\* nothing was highlighted yet), and for a Replace result exactly the items of
\* the response with the highlight on index 0, or None when the response is
\* empty; current_page becomes the page of the request and has_next_page the
\* flag of the response.
C28_MergeByMode ==
    [][MergeStep =>
          LET m == Head(chan[status.rx])
              r == m.value
          IN  /\ r.append_items =>
                     /\ Len(items') = Len(items) + Len(r.items)
                     /\ SubSeq(items', 1, Len(items)) = items
                     /\ SubSeq(items', Len(items) + 1, Len(items')) = r.items
              /\ ~r.append_items => items' = r.items
              /\ selected' = DescribedHighlight(r)
              /\ pagination'.current_page = threads[m.worker].page
              /\ pagination'.has_next_page = r.more_items
              /\ pagination'.per_page = pagination.per_page]_vars

\* C29 (as claimed): in Normal(List), Down on the last item leaves the
\* highlight on index len-1, Up on index 0 leaves it on 0, Down with nothing
\* highlighted on a non-empty list highlights index 0, and neither key changes
\* the items, the pagination or the editor.
C29_SelectionSaturates ==
    /\ [][(KeyPress(DownKey) /\ mode = Normal("List")) =>
             /\ (items /= <<>> /\ selected = Some(Len(items) - 1)) =>
                    selected' = Some(Len(items) - 1)
             /\ (items /= <<>> /\ selected = None) => selected' = Some(0)
             /\ UNCHANGED <<items, pagination, search>>]_vars
    /\ [][(KeyPress(UpKey) /\ mode = Normal("List")) =>
             /\ selected = Some(0) => selected' = Some(0)
             /\ UNCHANGED <<items, pagination, search>>]_vars

\* C30 (as claimed): in Normal(List) with a viewport of n rows, PageDown moves
\* the highlight from i to min(i + (n-1), len-1) and PageUp to
\* max(i - (n-1), 0); with n = 0 or an empty list both leave the highlight as
\* it is, None included.
C30_PageSelection ==
    /\ [][(KeyPress(Key("PageDown")) /\ mode = Normal("List")) =>
             LET n == pagination.per_page
                 noop == n = 0 \/ items = <<>>
             IN  /\ noop => selected' = selected
                 /\ (~noop /\ IsSome(selected)) =>
                        selected' = Some(Min(Unwrap(selected) + (n - 1), Len(items) - 1))]_vars
    /\ [][(KeyPress(Key("PageUp")) /\ mode = Normal("List")) =>
             LET n == pagination.per_page
                 noop == n = 0 \/ items = <<>>
             IN  /\ noop => selected' = selected
                 /\ (~noop /\ IsSome(selected)) =>
                        selected' = Some(Max(Unwrap(selected) - (n - 1), 0))]_vars

(***************************************************************************)
(* Properties of the fetch slot                                            *)
(***************************************************************************)
\* this step of App::update calls poll_result
PollStep == pc = "poll_result" /\ pc' /= pc

\* C31 (fetch slot protocol): the fetcher holds at most one slot: the status is
\* Idle or holds the receiver of the newest fetch, and no other channel holds a
\* message; is_fetching becomes true only when a fetch is scheduled, and stops
\* being true only when poll_result returns the result; a fetch scheduled on an
\* occupied slot discards it for its own; poll_result can always be taken, it
\* returns nothing and changes nothing when the slot is idle or the worker has
\* not finished, and when it returns a result it leaves the slot idle and the
\* channel empty, so that no result is merged twice.
C31_FetchSlotProtocol ==
    /\ [](/\ status = Idle \/ (is_fetching /\ status = Fetching(Len(threads)))
          /\ \A i \in 1..Len(chan) :
                 /\ Len(chan[i]) <= 1
                 /\ chan[i] /= <<>> => status = Fetching(i)
          /\ \A i, j \in 1..Len(merged) : merged[i] = merged[j] => i = j
          /\ pc = "poll_result" => ENABLED UpdatePoll)
    /\ [][/\ (~is_fetching /\ is_fetching') => ScheduleStep
          /\ ScheduleStep => status' = Fetching(Len(threads')) /\ chan'[status'.rx] = <<>>
          /\ status' /= status => ScheduleStep \/ (PollStep /\ poll_ready)
          /\ (is_fetching /\ ~is_fetching') => PollStep /\ poll_ready
          /\ (PollStep /\ poll_ready) => status' = Idle /\ chan'[status.rx] = <<>>
          /\ (PollStep /\ ~poll_ready) =>
                 UNCHANGED <<status, chan, items, selected, pagination, merged, result>>]_vars

\* a search discarded the slot of the finished first fetch, and the result of
\* the search has been polled
C31_Witness ==
    /\ Len(threads) = 2 /\ IsReplace(2)
    /\ threads[1].state = "finished" /\ merged = <<2>>
    /\ status = Idle /\ pc = "event"

(***************************************************************************)
(* Sessions of several searches: the App bounded by the number of searches *)
(* and the pages instead of the number of threads                          *)
(***************************************************************************)
\* the most searches one session submits
MaxSearches == 2
\* the pages the session asks of one listing
SearchPages == {1, 2, 3}
\* the one-character query of the n-th search: the searches alternate between
\* two queries, so that each differs from the one before
SearchChar(n) == IF n % 2 = 1 THEN "a" ELSE "b"

\* the searches submitted so far
Searches == {id \in 1..Len(threads) : IsReplace(id)}

\* App::update, its first half, for the pages of SearchPages
SearchesUpdateFetch ==
    /\ pc = "update"
    /\ \E overflow_checks \in (IF update_overflows THEN BOOLEAN ELSE {FALSE}) :
          IF overflow_checks
          THEN /\ pc' = "done"
               /\ result' = Panicked
               /\ UNCHANGED fetcherVars
          ELSE /\ IF should_fetch
                  THEN LET page == lookahead_page
                           fetch_result ==
                               with_append_items(with_page(FetchResult_new, page), TRUE)
                       IN  /\ page \in SearchPages
                           /\ spawn(status, chan, options, page, fetch_result)
                  ELSE UNCHANGED fetcherVars
               /\ pc' = "poll_result"
               /\ result' = result
    /\ UNCHANGED <<mode, items, selected, pagination, search, merged>>
    /\ UNCHANGED cliVars

\* the character of the next search typed into the empty query, in Normal(List)
\* or Normal(SearchBar)
SearchesType ==
    /\ mode.kind = "Normal"
    /\ search.query = <<>>
    /\ KeyPress(CharKey(SearchChar(Cardinality(Searches) + 1)))

\* Down in Normal(List): the highlight moves towards the end of the loaded
\* items, where the next tick looks ahead
SearchesDown ==
    /\ mode = Normal("List")
    /\ KeyPress(DownKey)

\* Enter in Normal(SearchBar): the query is saved and cleared, the focus goes to
\* the list and fetch_and_replace_items schedules the search
SearchesEnter ==
    /\ pc = "event"
    /\ mode = Normal("SearchBar")
    /\ Cardinality(Searches) < MaxSearches
    /\ search' = clear(save_to_history(search))
    /\ mode' = Normal("List")
    /\ pagination' = PaginationState_reset(pagination)
    /\ spawn(reset_status, drop_receiver(status, chan), parse_fetch_options(search.query),
             1, with_append_items(with_page(FetchResult_new, 1), FALSE))
    /\ ActionNone
    /\ UNCHANGED <<items, selected, merged>>
    /\ UNCHANGED cliVars

\* the callback of worker thread id returns one item, with or without more
\* pages, or fails, and the thread sends the result
SearchesWorker(id) ==
    /\ result = Running
    /\ id \in 1..Len(threads)
    /\ \E r \in {callback_ok(id, 1, more) : more \in BOOLEAN} \cup {callback_err(id)} :
           worker_send(id, r)
    /\ UNCHANGED <<mode, status, options, items, selected, pagination, search, pc,
                   result, merged>>
    /\ UNCHANGED cliVars

SearchesWorkerFinish == \E id \in 1..Len(threads) : SearchesWorker(id)

NextSearches ==
    \/ Draw
    \/ SearchesUpdateFetch
    \/ UpdatePoll
    \/ NoKeyEvent
    \/ SearchesType
    \/ SearchesDown
    \/ SearchesEnter
    \/ SearchesWorkerFinish

SpecSearches == Init /\ [][NextSearches]_vars

\* the threads a session of SpecSearches spawns at most
SearchesThreads == 1..(Cardinality(SearchPages) * (MaxSearches + 1))

\* the key event of a tick: event::poll returns within 100 ms, with or without a key
SearchesEvent == NoKeyEvent \/ SearchesType \/ SearchesDown \/ SearchesEnter

\* the loop of select_item_with keeps ticking as long as the session runs (it
\* blocks nowhere), and every callback returns
SpecSearchesFair ==
    /\ SpecSearches
    /\ WF_vars(Draw)
    /\ WF_vars(SearchesUpdateFetch)
    /\ WF_vars(UpdatePoll)
    /\ WF_vars(SearchesEvent)
    /\ \A id \in SearchesThreads : WF_vars(SearchesWorker(id))

(***************************************************************************)
(* Properties of the pages                                                 *)
(***************************************************************************)
\* the search a fetch belongs to: the newest Replace fetch up to it, 0 for the
\* fetches before any search
SearchOf(id) ==
    LET rs == {b \in 1..id : IsReplace(b)}
    IN  IF rs = {} THEN 0 ELSE CHOOSE b \in rs : \A c \in rs : c <= b

\* a search was submitted and its response is not merged
AwaitingSearch ==
    \E s \in 1..Len(threads) :
        IsReplace(s) /\ ~InMerged(s) /\ \A b \in (s + 1)..Len(threads) : ~IsReplace(b)

\* the fetches of search s that are merged
MergedOf(s) == {merged[k] : k \in {k \in 1..Len(merged) : SearchOf(merged[k]) = s}}

\* the items are those of the merged responses of search s, which are its pages
\* 1..n, in the order of the pages and, within a page, of the response
PagesShown(s, n) ==
    /\ \A i \in 1..Len(items) :
           /\ items[i][1] \in MergedOf(s)
           /\ threads[items[i][1]].page \in 1..n
    /\ \A i, j \in 1..Len(items) :
           i < j => \/ threads[items[i][1]].page < threads[items[j][1]].page
                    \/ items[i][1] = items[j][1] /\ items[i][2] < items[j][2]
    /\ {threads[id].page : id \in MergedOf(s)} = 1..n

\* the items are the responses of pages 1..current_page of search s, in order
PagesConcatenated(s) == PagesShown(s, pagination.current_page)

\* the items are still those of the listing whose response was merged last: its
\* pages up to that response, in order; no items if nothing was merged yet
PreviousListingShown ==
    IF merged = <<>> THEN items = <<>>
    ELSE PagesShown(SearchOf(Last(merged)), threads[Last(merged)].page)

\* what the claim of C32 and its amendment share: the fetches of a search ask for
\* the pages 1, 2, 3, ... in order, none twice and none skipped; a lookahead is
\* scheduled only on an idle slot and asks for the page after the last merged
\* one; the merge of an Append response puts the items of page current_page + 1
\* behind the items of the list, the merge of a Replace response makes the list
\* the items of page 1.
C32_PagesInOrder ==
    /\ [](\A id \in 1..Len(threads) :
              threads[id].page = IF IsReplace(id) \/ id = 1 THEN 1
                                 ELSE threads[id - 1].page + 1)
    /\ [][(ScheduleStep /\ Last(threads').fetch_result.append_items) =>
              /\ ~is_fetching
              /\ Last(threads').page = pagination.current_page + 1
              /\ merged /= <<>> => threads[Last(merged)].page = pagination.current_page
              /\ merged = <<>> => pagination.current_page = 0]_vars
    /\ [][MergeStep =>
              LET r == Head(chan[status.rx]).value
              IN  IF r.append_items
                  THEN /\ threads[status.rx].page = pagination.current_page + 1
                       /\ items' = items \o r.items
                  ELSE /\ threads[status.rx].page = 1
                       /\ items' = r.items]_vars

\* C32 (as claimed): the pages are requested in order (C32_PagesInOrder), and the
\* items are always the responses of pages 1..current_page of one search.
C32_Original ==
    /\ C32_PagesInOrder
    /\ [](\E s \in 0..Len(threads) : PagesConcatenated(s))

\* C32 (amended): the pages are requested in order (C32_PagesInOrder), and the
\* items are the responses of pages 1..current_page of the newest search, except
\* from the submission of a search to the merge of its response: then
\* current_page is 0 and the items are still those of the listing shown before,
\* the pages of it that were merged, in order.
C32_Amended ==
    /\ C32_PagesInOrder
    /\ [](IF AwaitingSearch
          THEN pagination.current_page = 0 /\ PreviousListingShown
          ELSE PagesConcatenated(SearchOf(Len(threads))))

\* C32 witness: two searches were submitted, and the pages 1, 2 and 3 of the
\* second were requested and merged one after the other: the list is their
\* items in this order.
C32_Witness ==
    LET s == SearchOf(Len(threads))
    IN  /\ Cardinality(Searches) = 2 /\ s > 0 /\ Len(threads) = s + 2
        /\ Len(merged) >= 3
        /\ SubSeq(merged, Len(merged) - 2, Len(merged)) = <<s, s + 1, s + 2>>
        /\ items = <<<<s, 1>>, <<s + 1, 1>>, <<s + 2, 1>>>>
        /\ pagination.current_page = 3

(***************************************************************************)
(* Properties of the options of a fetch                                    *)
(***************************************************************************)
\* the options of the search a fetch belongs to
SearchOptions(id) == IF SearchOf(id) = 0 THEN FetchOptions_new ELSE threads[SearchOf(id)].options

\* C33 (options of a lookahead): every Append fetch carries the options of the
\* newest search submitted before it, the empty options if there is none; the
\* options the fetcher records are those of the newest fetch, and they change
\* only on a step that schedules a fetch.
C33_LookaheadOptions ==
    /\ [](/\ \A id \in 1..Len(threads) :
                 ~IsReplace(id) => threads[id].options = SearchOptions(id)
          /\ options = IF threads = <<>> THEN FetchOptions_new ELSE Last(threads).options)
    /\ [][options' /= options => ScheduleStep]_vars

\* the lookahead after the second of two different searches
C33_Witness ==
    /\ Len(threads) = 4
    /\ IsReplace(2) /\ IsReplace(3) /\ ~IsReplace(4)
    /\ threads[2].options /= threads[3].options
    /\ threads[4].options = threads[3].options /\ threads[4].page = 2

(***************************************************************************)
(* Properties of the loading state                                         *)
(***************************************************************************)
\* C34 (no stuck loading state): when every callback returns and the loop keeps
\* ticking, a fetch that occupies the slot (is_fetching, "Loading items..." in
\* the info bar) does not occupy it forever: its result is polled, which leaves
\* the slot idle and the result merged or the session ended by its error, or a
\* new search supersedes it, or the session ends; in a session of finitely many
\* searches the slot is idle again or the session over.
C34_NoStuckLoading ==
    /\ \A id \in SearchesThreads :
           (status = Fetching(id)) ~>
               \/ status = Idle /\ (InMerged(id) \/ result = Err("fetch failed"))
               \/ id \in 1..Len(threads) /\ Superseded(id)
               \/ result /= Running
    /\ is_fetching ~> (status = Idle \/ result /= Running)

\* the lookahead after a search occupies the slot and its worker has not returned
C34_Witness ==
    /\ Len(threads) = 3 /\ IsReplace(2) /\ ~IsReplace(3)
    /\ status = Fetching(3) /\ threads[3].state = "running" /\ result = Running

(***************************************************************************)
(* Properties of the history cursor                                        *)
(***************************************************************************)
\* the history cursor of s is None or the index of an entry of the history
HistoryCursorValid(s) ==
    s.history_index = None \/ Unwrap(s.history_index) \in 0..(Len(s.history) - 1)

\* C35 (history cursor validity): in every reachable state of the editor
\* history_index is None or Some(i) with i < history.len(), so that the history
\* is non-empty while browsing and history.len() - 1 does not underflow; Up and
\* Down from that state leave the cursor valid, and when they move it the query
\* is the entry of the history it points to.
C35_HistoryCursorValid ==
    /\ HistoryCursorValid(search)
    /\ search.history_index /= None => Len(search.history) - 1 >= 0
    /\ \A next \in {navigate_history_up(search), navigate_history_down(search)} :
           /\ HistoryCursorValid(next)
           /\ next.history = search.history
           /\ next.history_index \notin {None, search.history_index} =>
                  next.query = next.history[Unwrap(next.history_index) + 1]

\* browsing has gone back from the newest of two entries to the oldest
C35_Witness ==
    /\ Len(search.history) = 2 /\ search.history_index = Some(0)
    /\ search.query = search.history[1]

(***************************************************************************)
(* Properties of the submission of a search                                *)
(***************************************************************************)
\* C36 (a submission leaves the displayed results): the Enter that schedules a
\* Replace fetch leaves the items and the highlight as they are and sets
\* current_page to 0 and has_next_page to true; from then until the tick that
\* merges the response the items do not change, no tick changes the highlight,
\* current_page is 0 and has_next_page true, and Enter on a highlighted item of
\* the list selects that item of the previous search.
C36_SubmitKeepsResults ==
    /\ [][SubmitStep =>
              /\ items' = items /\ selected' = selected
              /\ pagination' = [pagination EXCEPT !.current_page = 0,
                                                  !.has_next_page = TRUE]]_vars
    /\ [][(items' /= items \/ (pc \in {"update", "poll_result"} /\ selected' /= selected)) =>
              ~(AwaitingSearch /\ AwaitingSearch')]_vars
    /\ [](AwaitingSearch =>
              /\ pagination.current_page = 0 /\ pagination.has_next_page
              /\ (/\ pc = "event" /\ mode = Normal("List")
                  /\ IsSome(selected) /\ Unwrap(selected) < Len(items)) =>
                     ENABLED (KeyPress(EnterKey) /\ result' = Ok(Unwrap(selected))))

\* a search was submitted on a loaded list, its response has arrived and is not
\* merged yet: the item of the first listing is still shown and highlighted
C36_Witness ==
    /\ AwaitingSearch /\ status = Fetching(2) /\ threads[2].state = "finished"
    /\ items = <<<<1, 1>>>> /\ selected = Some(0)
    /\ pc = "event" /\ mode = Normal("List")

(***************************************************************************)
(* Properties of the tick                                                  *)
(***************************************************************************)
\* the worker of the fetch in the slot has sent its result
ResultWaiting == is_fetching /\ chan[status.rx] /= <<>>

\* this step is one of the two halves of App::update
TickStep == pc \in {"update", "poll_result"} /\ pc' /= pc

\* C37 (the tick in every mode): in each of Normal(List), Normal(SearchBar),
\* Help(List) and Help(SearchBar) the tick that finds the result of a finished
\* fetch can be taken and polls it, leaving the slot idle and, unless the result
\* is an error, the response merged; a tick never changes the mode, the query,
\* the cursor, the history or the history cursor.
C37_TickInEveryMode ==
    /\ [](ResultWaiting =>
              /\ pc = "update" => ENABLED UpdateFetch
              /\ pc = "poll_result" => ENABLED UpdatePoll)
    /\ [][(TickStep /\ pc = "poll_result" /\ ResultWaiting) =>
              /\ status' = Idle
              /\ IF Head(chan[status.rx]).ok
                 THEN /\ merged' = Append(merged, status.rx)
                      /\ items' = merged_items(Head(chan[status.rx]).value)
                      /\ pagination'.current_page = threads[status.rx].page
                 ELSE result' = Err("fetch failed")]_vars
    /\ [][TickStep => mode' = mode /\ search' = search]_vars

\* with the help overlay open over the search bar, the tick is about to poll
\* the response of the first fetch
C37_Witness ==
    /\ mode = Help("SearchBar")
    /\ pc = "poll_result" /\ ResultWaiting /\ Head(chan[status.rx]).ok

(***************************************************************************)
(* Properties of the word operations on multi-byte whitespace              *)
(***************************************************************************)
\* C38 (as claimed): in every state of the editor, with whitespace of more than
\* one byte in the query too, delete_word_before and move_cursor_left_word
\* complete (they slice the query at character boundaries only, so no session
\* ends in a panic) and leave the cursor within [0, grapheme_count(query)]; in a
\* query of letters, spaces and no-break spaces they leave it at the start of
\* the word before the cursor.
C38_WordOpsMultiByteSafe ==
    /\ result /= Panicked
    /\ search.cursor_pos <= grapheme_count(search) =>
          /\ ~delete_word_before_cursor_panics(search)
          /\ ~move_cursor_left_word_panics(search)
          /\ LET deleted == delete_word_before_cursor(search)
                 moved == move_cursor_left_word(search)
             IN  /\ deleted.cursor_pos \in 0..grapheme_count(deleted)
                 /\ moved.cursor_pos \in 0..grapheme_count(moved)
                 /\ PlainEditor({"a", " ", "U+00A0"}) =>
                        /\ deleted.cursor_pos = WordLeft(search.query, search.cursor_pos)
                        /\ moved.cursor_pos = WordLeft(search.query, search.cursor_pos)

====
